---- MODULE Spec2Model ----
(***************************************************************************)
(* Card-reader ingestion of ooresults: the store (events, classes,         *)
(* courses, competitors, entries), the result engine, and the operations   *)
(* store_cardreader_result and add_or_update_entry acting on it.           *)
(***************************************************************************)
EXTENDS Integers, Sequences, FiniteSets, TLC

\* db: the committed store; last: the last call that ended (its arguments,
\* the store before it, how it ended); cache: the result cache, per event;
\* procs: the calls in flight, each inside its own transaction scope
VARIABLES db, last, cache, procs

vars == <<db, last, cache, procs>>

(***************************************************************************)
(* Bounds of the model.                                                    *)
(***************************************************************************)
\* most entries the event holds
MaxEntries == 3
\* largest id the store hands out to an entry
MaxEntryId == 4
\* the entries and entry ids at the entries desk
MaxDeskEntries == 2
MaxDeskId == 3
\* most punches of a result and most controls of a course given to the engine
MaxPunches == 3
MaxControls == 2
\* the events of the series
MaxRaces == 2
\* the entries made at the entry form
MaxFormEntries == 2
\* the entries made before rows are deleted
MaxGoneEntries == 1
\* most rows of a result in the result form
MaxRows == 2
\* the entry ids handed out while classes are tried in every order
MaxCopies == 3

(***************************************************************************)
(* Values.                                                                 *)
(***************************************************************************)
\* Python None for a time / for an id
NoTime == -1
NoId == 0
\* None and "key not in the response dict" for a response field
NoneS == "None"
Absent == "absent"

\* times of the test fixture, in seconds after s1
S1 == 0
F1 == 8
PunchTime(i) == S1 + i + i

Codes == {"101", "102"}
Chips == {"c1", "c2"}
\* the chip of the cards that are read
CardChips == {"c1"}
EventKey == "4711"

Range(s) == {s[i] : i \in 1..Len(s)}

\* ClassParams(): the default parameters
DefaultParams == [otype |-> "standard"]

\* PersonRaceResult(status=...)
PersonRaceResult(status) ==
  [status |-> status,
   start_time |-> NoTime, finish_time |-> NoTime,
   punched_start_time |-> NoTime, punched_finish_time |-> NoTime,
   si_punched_start_time |-> NoTime, si_punched_finish_time |-> NoTime,
   time |-> NoTime,
   split_times |-> <<>>]

SplitTime(code, punch_time, si_punch_time, time, status) ==
  [control_code |-> code, punch_time |-> punch_time,
   si_punch_time |-> si_punch_time, time |-> time, status |-> status]

(***************************************************************************)
(* parse_cardreader_log: the result a cardRead message carries.            *)
(***************************************************************************)
CardResult(start, finish, codes) ==
  [status |-> "FINISHED",
   start_time |-> start, finish_time |-> finish,
   punched_start_time |-> start, punched_finish_time |-> finish,
   si_punched_start_time |-> start, si_punched_finish_time |-> finish,
   time |-> NoTime,
   split_times |-> [i \in 1..Len(codes) |->
       SplitTime(codes[i], PunchTime(i), PunchTime(i), NoTime, "ADDITIONAL")]]

\* the cards of the model: an empty card, cards with one punch, start and
\* finish, and cards that lack the start or the finish
CardResults ==
  {CardResult(NoTime, NoTime, <<>>),
   CardResult(S1, F1, <<"101">>), CardResult(S1, F1, <<"102">>),
   CardResult(S1, NoTime, <<"101">>), CardResult(NoTime, F1, <<"101">>)}

CardReads ==
  {[entry_type |-> "cardRead", control_card |-> c, result |-> r] :
     c \in CardChips, r \in CardResults}

(***************************************************************************)
(* Result engine (PersonRaceResult methods).                               *)
(***************************************************************************)
\* variant: a disqualification is computed anew
TerminalStatusButDisqualified == {"DID_NOT_START", "DID_NOT_FINISH"}

\* the statuses that compute_result leaves as they are
TerminalStatus == {"DID_NOT_START", "DID_NOT_FINISH", "DISQUALIFIED"}

\* variant: a punch without time is not taken over
WorkingPunchesTimed(r) ==
  SelectSeq(r.split_times, LAMBDA sp : sp.status # "MISSING" /\ sp.punch_time # NoTime)

\* the working sequence: the punches of a result, without the MISSING rows
\* every row of the result taken as a punch, the MISSING rows of an earlier
\* computation included
WorkingPunchesAll(r) == r.split_times

WorkingPunches(r) == SelectSeq(r.split_times, LAMBDA sp : sp.status # "MISSING")

has_punches(r) ==
  \/ r.punched_start_time # NoTime
  \/ r.punched_finish_time # NoTime
  \/ \E i \in 1..Len(r.split_times) : r.split_times[i].punch_time # NoTime

\* variant: the edits stay
resetKeepsEdits(r) == r

\* reset: the result as the card gave it, without edits: the punched times are
\* the SI times again, only the punches read from the card remain
reset(r) ==
  LET si == SelectSeq(r.split_times, LAMBDA sp : sp.si_punch_time # NoTime)
  IN [r EXCEPT
        !.status = "INACTIVE",
        !.start_time = NoTime, !.finish_time = NoTime, !.time = NoTime,
        !.punched_start_time = r.si_punched_start_time,
        !.punched_finish_time = r.si_punched_finish_time,
        !.split_times = [i \in 1..Len(si) |->
            [si[i] EXCEPT !.punch_time = si[i].si_punch_time, !.time = NoTime,
                          !.status = "ADDITIONAL"]]]

\* the SI punches of a result: the (control_code, si_punch_time) of its splits
SiPunches(r) ==
  SelectSeq(r.split_times, LAMBDA sp : sp.si_punch_time # NoTime)

SiCount(r, code, t) ==
  Cardinality({i \in 1..Len(SiPunches(r)) :
     /\ SiPunches(r)[i].control_code = code
     /\ SiPunches(r)[i].si_punch_time = t})

same_si_punches(a, b) ==
  /\ a.si_punched_start_time = b.si_punched_start_time
  /\ a.si_punched_finish_time = b.si_punched_finish_time
  /\ Len(SiPunches(a)) = Len(SiPunches(b))
  /\ \A i \in 1..Len(SiPunches(a)) :
       SiCount(a, SiPunches(a)[i].control_code, SiPunches(a)[i].si_punch_time)
         = SiCount(b, SiPunches(a)[i].control_code, SiPunches(a)[i].si_punch_time)

\* standard: the earliest unused punch of the control's code whose time is
\* not before the last consumed punch; 0 when there is none
FirstMatch(ps, used, code, lastT) ==
  LET cand == {i \in 1..Len(ps) :
                 /\ i \notin used
                 /\ ps[i].control_code = code
                 /\ (ps[i].punch_time = NoTime \/ lastT = NoTime
                       \/ ps[i].punch_time >= lastT)}
  IN IF cand = {} THEN 0 ELSE CHOOSE i \in cand : \A j \in cand : i <= j

RECURSIVE MatchStandard(_, _, _, _, _)
\* walks the controls from k on; returns the matched punch of every control (0: missing)
MatchStandard(ps, controls, k, used, lastT) ==
  IF k > Len(controls) THEN <<>>
  ELSE LET m == FirstMatch(ps, used, controls[k], lastT)
       IN IF m = 0
          THEN <<0>> \o MatchStandard(ps, controls, k + 1, used, lastT)
          ELSE <<m>> \o MatchStandard(ps, controls, k + 1, used \cup {m},
                          IF ps[m].punch_time = NoTime THEN lastT ELSE ps[m].punch_time)

\* variant: net matches as standard does, in the order of the course
MatchNetInOrder(ps, controls, k, used) == MatchStandard(ps, controls, k, used, NoTime)

RECURSIVE MatchNet(_, _, _, _)
\* net: every control code is matched once, by the earliest remaining punch of that code
MatchNet(ps, controls, k, used) ==
  IF k > Len(controls) THEN <<>>
  ELSE LET m == FirstMatch(ps, used, controls[k], NoTime)
       IN IF m = 0
          THEN <<0>> \o MatchNet(ps, controls, k + 1, used)
          ELSE <<m>> \o MatchNet(ps, controls, k + 1, used \cup {m})

Matching(ps, controls, params) ==
  IF params.otype = "net" THEN MatchNet(ps, controls, 1, {})
  ELSE MatchStandard(ps, controls, 1, {}, NoTime)

SplitSeconds(punch_time, start) ==
  IF punch_time = NoTime \/ start = NoTime THEN NoTime ELSE punch_time - start

\* the status compute_result gives a result that is not in a terminal status
ComputedStatus(r, controls, start, finish, punches, match) ==
  IF finish = NoTime /\ Len(punches) = 0 THEN
    r.status
  ELSE IF start # NoTime /\ finish # NoTime /\ finish < start THEN "DID_NOT_FINISH"
  ELSE IF Len(controls) = 0 THEN "FINISHED"
  ELSE IF start # NoTime /\ finish # NoTime /\ \A k \in 1..Len(match) : match[k] # 0
       THEN "OK"
  ELSE "MISSING_PUNCH"

compute_result(r, controls, params, start_time) ==
  LET start == IF start_time # NoTime THEN start_time ELSE r.punched_start_time
      finish == r.punched_finish_time
      punches == WorkingPunches(r)
      match == Matching(punches, controls, params)
      labelled == [i \in 1..Len(punches) |->
                     [punches[i] EXCEPT
                        !.status = IF i \in Range(match) THEN "OK" ELSE "ADDITIONAL",
                        !.time = SplitSeconds(punches[i].punch_time, start)]]
      missingIdx == SelectSeq([k \in 1..Len(controls) |-> k], LAMBDA k : match[k] = 0)
      missing == [j \in 1..Len(missingIdx) |->
                     SplitTime(controls[missingIdx[j]], NoTime, NoTime, NoTime, "MISSING")]
  IN [r EXCEPT
        !.start_time = start,
        !.finish_time = finish,
        !.split_times = labelled \o missing,
        !.time = IF start = NoTime \/ finish = NoTime THEN NoTime ELSE finish - start,
        !.status = IF r.status \in TerminalStatus THEN r.status
                   ELSE ComputedStatus(r, controls, start, finish, punches, match)]

(***************************************************************************)
(* The store: what the repository returns and how it changes.              *)
(***************************************************************************)
Event(id, key, light) == [id |-> id, key |-> key, light |-> light]

Course(id, event_id, controls) == [id |-> id, event_id |-> event_id, controls |-> controls]

Class(id, event_id, name, course_id, params) ==
  [id |-> id, event_id |-> event_id, name |-> name, course_id |-> course_id,
   params |-> params]

Club(id, name) == [id |-> id, name |-> name]

Competitor(id, first_name, last_name, chip) ==
  [id |-> id, first_name |-> first_name, last_name |-> last_name,
   club_id |-> NoId, gender |-> "", year |-> NoId, chip |-> chip]

Entry(id, event_id, competitor_id, class_id, club_id, not_competing, chip, result, start_time) ==
  [id |-> id, event_id |-> event_id, competitor_id |-> competitor_id,
   class_id |-> class_id, club_id |-> club_id, not_competing |-> not_competing,
   chip |-> chip, result |-> result, start |-> [start_time |-> start_time]]

\* PersonRaceStart()
NoStart == NoTime

get_events(d) == d.events

get_entries(d, event_id) == SelectSeq(d.entries, LAMBDA e : e.event_id = event_id)

get_classes(d, event_id) == SelectSeq(d.classes, LAMBDA c : c.event_id = event_id)

\* get_class / get_course raise KeyError for an unknown id
has_class(d, id) == \E i \in 1..Len(d.classes) : d.classes[i].id = id

\* get_event raises EventNotFoundError, get_club KeyError, for an unknown id
has_event(d, id) == \E i \in 1..Len(d.events) : d.events[i].id = id
has_club(d, id) == \E i \in 1..Len(d.clubs) : d.clubs[i].id = id
get_class(d, id) == d.classes[CHOOSE i \in 1..Len(d.classes) : d.classes[i].id = id]
has_course(d, id) == \E i \in 1..Len(d.courses) : d.courses[i].id = id
get_course(d, id) == d.courses[CHOOSE i \in 1..Len(d.courses) : d.courses[i].id = id]

has_competitor(d, id) == \E i \in 1..Len(d.competitors) : d.competitors[i].id = id
get_competitor(d, id) ==
  d.competitors[CHOOSE i \in 1..Len(d.competitors) : d.competitors[i].id = id]

\* the id of the competitor with this chip, NoId when there is none
get_competitor_by_chip(d, chip) ==
  LET found == SelectSeq(d.competitors, LAMBDA c : c.chip = chip)
  IN IF Len(found) = 0 THEN NoId ELSE found[1].id

\* the columns get_entries and get_entry join to an entry
first_name(d, e) ==
  IF e.competitor_id = NoId THEN NoneS ELSE get_competitor(d, e.competitor_id).first_name
last_name(d, e) ==
  IF e.competitor_id = NoId THEN NoneS ELSE get_competitor(d, e.competitor_id).last_name
class_name(d, e) ==
  IF e.class_id = NoId THEN NoneS ELSE get_class(d, e.class_id).name

MaxId(entries) ==
  IF Len(entries) = 0 THEN 0
  ELSE LET ids == {entries[i].id : i \in 1..Len(entries)}
       IN CHOOSE m \in ids : \A x \in ids : x <= m

\* entries.id is INTEGER PRIMARY KEY AUTOINCREMENT: an id is never handed out
\* twice, d.seq is the largest id handed out so far
NextEntryId(d) == d.seq + 1

add_entry_result(d, event_id, chip, result, start_time) ==
  [d EXCEPT !.entries =
     Append(@, Entry(NextEntryId(d), event_id, NoId, NoId, NoId, FALSE, chip, result,
                     start_time)),
            !.seq = NextEntryId(d)]

\* the entries table has no unique constraint on (event_id, competitor_id):
\* add_entry inserts also for a competitor who has an entry in the event
add_entry(d, event_id, competitor_id, class_id, club_id, not_competing, chip, result, start_time) ==
  [d EXCEPT !.entries =
     Append(@, Entry(NextEntryId(d), event_id, competitor_id, class_id, club_id,
                     not_competing, chip, result, start_time)),
            !.seq = NextEntryId(d)]

update_entry_result(d, id, chip, result, start_time) ==
  [d EXCEPT !.entries = [i \in 1..Len(@) |->
     IF @[i].id = id
     THEN [@[i] EXCEPT !.chip = chip, !.result = result,
                       !.start = [start_time |-> start_time]]
     ELSE @[i]]]

\* the id of the competitor with this name, NoId when there is none
get_competitor_by_name(d, first, lastn) ==
  LET found == SelectSeq(d.competitors,
                         LAMBDA c : c.first_name = first /\ c.last_name = lastn)
  IN IF Len(found) = 0 THEN NoId ELSE found[1].id

NextCompetitorId(d) == MaxId(d.competitors) + 1

add_competitor(d, first, lastn, club_id, gender, year, chip) ==
  [d EXCEPT !.competitors =
     Append(@, [id |-> NextCompetitorId(d), first_name |-> first, last_name |-> lastn,
                club_id |-> club_id, gender |-> gender, year |-> year, chip |-> chip])]

delete_entries(d, event_id) ==
  [d EXCEPT !.entries = SelectSeq(@, LAMBDA e : e.event_id # event_id)]

delete_classes(d, event_id) ==
  [d EXCEPT !.classes = SelectSeq(@, LAMBDA c : c.event_id # event_id)]

\* import_entries: the entries of a result list are added to the event
import_entries(d, event_id, entries) ==
  [d EXCEPT !.entries = @ \o [i \in 1..Len(entries) |->
     [entries[i] EXCEPT !.id = NextEntryId(d) + i - 1, !.event_id = event_id]],
            !.seq = d.seq + Len(entries)]

\* update_entry: the class, the chip, the result and the start of an entry
update_entry(d, id, class_id, club_id, not_competing, chip, result, start_time) ==
  [d EXCEPT !.entries = [i \in 1..Len(@) |->
     IF @[i].id = id
     THEN [@[i] EXCEPT !.class_id = class_id, !.club_id = club_id,
                       !.not_competing = not_competing,
                       !.chip = chip, !.result = result,
                       !.start = [start_time |-> start_time]]
     ELSE @[i]]]

\* get_entry raises KeyError for an unknown id
has_entry(d, id) == \E i \in 1..Len(d.entries) : d.entries[i].id = id
get_entry(d, id) == d.entries[CHOOSE i \in 1..Len(d.entries) : d.entries[i].id = id]

delete_entry(d, id) ==
  [d EXCEPT !.entries = SelectSeq(@, LAMBDA e : e.id # id)]

update_competitor(d, id, first, lastn, club_id, gender, year, chip) ==
  [d EXCEPT !.competitors = [i \in 1..Len(@) |->
     IF @[i].id = id
     THEN [id |-> id, first_name |-> first, last_name |-> lastn, club_id |-> club_id,
           gender |-> gender, year |-> year, chip |-> chip]
     ELSE @[i]]]

\* what a `with model.db.transaction(...)` block leaves in the store: the
\* block's writes when it ends, the state before it when it raises
Transaction(pre, out) == IF out.raised # "" THEN pre ELSE out.db

(***************************************************************************)
(* cached_result: the cached ranking of an event.                          *)
(***************************************************************************)
EventIds == {1, 2, 3}

\* no cached ranking / the ranking built from these entries
NoCache == <<>>
Cached(entries) == <<entries>>

\* clear_cache(event_id=...): the event's cached ranking is dropped
clear_cache(c, event_id) ==
  IF event_id \in EventIds THEN [c EXCEPT ![event_id] = NoCache] ELSE c

(***************************************************************************)
(* store_cardreader_result                                                 *)
(***************************************************************************)
\* how a transaction block ends: the store it wrote, what it raised ("" when
\* it returned), the response, and the event whose cache it cleared on the way
Return(d, res) == [db |-> d, raised |-> "", res |-> res, clear |-> NoId]
Response(controlCard, firstName, lastName, class, status, time, error, missingControls, light_status) ==
  [controlCard |-> controlCard, firstName |-> firstName, lastName |-> lastName,
   class |-> class, status |-> status, time |-> time, error |-> error,
   missingControls |-> missingControls, light_status |-> light_status]

NoResponse ==
  Response(Absent, Absent, Absent, Absent, Absent, NoTime, Absent, Absent, Absent)

Raise(d, what) == [db |-> d, raised |-> what, res |-> NoResponse, clear |-> NoId]

\* cached_result.clear_cache(event_id=..., entry_id=...) was called inside the block
Cleared(out, event_id) == [out EXCEPT !.clear = event_id]

missing_controls(result) ==
  IF result.finish_time = NoTime THEN <<"FINISH">>
  ELSE IF result.start_time = NoTime THEN <<"START">>
  ELSE LET ms == SelectSeq(result.split_times, LAMBDA sp : sp.status = "MISSING")
       IN [i \in 1..Len(ms) |-> ms[i].control_code]

\* the stores the model explores
Bounded(d) == Len(d.entries) <= MaxEntries /\ d.seq <= MaxEntryId

\* A call ends in one of several ways: it returns, or compute_result or one
\* of the store's writes raises.  Each operator below gives the set of these ends.

\* variant: the key is compared without the test for the empty key
EventsOfKeyAlone(d, event_key) ==
  SelectSeq(get_events(d), LAMBDA e : e.key = event_key)

\* the event of a key: `event_key != "" and e.key == event_key`
EventsOfKey(d, event_key) ==
  SelectSeq(get_events(d), LAMBDA e : event_key # "" /\ e.key = event_key)

\* Step A: the entries of the event that have the card's chip
entries_with_chip(d, event, item) ==
  SelectSeq(get_entries(d, event.id), LAMBDA e : e.chip = item.control_card)

\* variant without copy.deepcopy: every class computes on the one result, and
\* every match holds that result as the last class left it
CourseMatchesInPlace(d, event, result) ==
  LET withCourse == SelectSeq(get_classes(d, event.id),
         LAMBDA c : c.course_id # NoId /\ has_course(d, c.course_id))
      n == Len(withCourse)
      r[i \in 0..n] ==
        IF i = 0 THEN result
        ELSE compute_result(r[i - 1], get_course(d, withCourse[i].course_id).controls,
                            withCourse[i].params, NoTime)
      ok == SelectSeq([i \in 1..n |-> i], LAMBDA i : r[i].status = "OK")
  IN [j \in 1..Len(ok) |-> [class_ |-> withCourse[ok[j]], r |-> r[n]]]

\* Step C: the classes of the event with a course, each with the incoming
\* result computed against a copy, kept when the status is OK
CourseMatches(d, event, result) ==
  LET withCourse == SelectSeq(get_classes(d, event.id),
         LAMBDA c : c.course_id # NoId /\ has_course(d, c.course_id))
      computed == [i \in 1..Len(withCourse) |->
         [class_ |-> withCourse[i],
          r |-> compute_result(result, get_course(d, withCourse[i].course_id).controls,
                               withCourse[i].params, NoTime)]]
  IN SelectSeq(computed, LAMBDA m : m.r.status = "OK")

\* variant: any match is taken, also an ambiguous one
UniqueMatchAny(matching) == Len(matching) >= 1

\* `if len(matching) == 1`
UniqueMatch(matching) == Len(matching) = 1

\* variant: the entry keeps the card's result as read, not the matched copy
AutoRegisterRaw(d, event, item, competitor_id, m) ==
  LET d2 == add_entry(d, event.id, competitor_id, m.class_.id, NoId, FALSE,
                      item.control_card, item.result, NoStart)
      entry == d2.entries[Len(d2.entries)]
  IN {Raise(d, "add_entry"),
      Cleared(Return(d2, Response(entry.chip, first_name(d2, entry), last_name(d2, entry),
                                  class_name(d2, entry), m.r.status, m.r.time, NoneS,
                                  missing_controls(m.r), "ok_registered")), event.id)}

\* Step D: auto-register
AutoRegister(d, event, item, competitor_id, m) ==
  LET d2 == add_entry(d, event.id, competitor_id, m.class_.id, NoId, FALSE,
                      item.control_card, m.r, NoStart)
      entry == d2.entries[Len(d2.entries)]
  IN {Raise(d, "add_entry"),
      Cleared(Return(d2, Response(entry.chip, first_name(d2, entry), last_name(d2, entry),
                                  class_name(d2, entry), m.r.status, m.r.time, NoneS,
                                  missing_controls(m.r), "ok_registered")), event.id)}

\* variant: the unassigned response without the insert
LightUnassignedNoInsert(d, event, item, error) ==
  LET result == compute_result(item.result, <<>>, DefaultParams, NoTime)
  IN {Raise(d, "compute_result"),
      Return(d, Response(item.control_card, NoneS, NoneS, NoneS, result.status, NoTime,
                         error, Absent, "unassigned"))}

\* Step E: the result computed against no controls and stored as an unassigned entry
LightUnassigned(d, event, item, error) ==
  LET result == compute_result(item.result, <<>>, DefaultParams, NoTime)
  IN {Raise(d, "compute_result"), Raise(d, "add_entry_result"),
      Return(add_entry_result(d, event.id, item.control_card, result, NoStart),
             Response(item.control_card, NoneS, NoneS, NoneS, result.status, NoTime,
                      error, Absent, "unassigned"))}

\* variant: only an entry that stores punches makes a second reading
SecondReadingPunched(with_chip) ==
  \E i \in 1..Len(with_chip) : has_punches(with_chip[i].result)

\* Step A: `if entries_with_chip`
SecondReading(with_chip) == Len(with_chip) > 0

LightCardRead(d, event, item) ==
  IF SecondReading(entries_with_chip(d, event, item))
  THEN {Return(d, Response(item.control_card, NoneS, NoneS, NoneS, item.result.status,
                           NoTime, Absent, Absent, "second_reading"))}
  ELSE LET competitor_id == get_competitor_by_chip(d, item.control_card)
       IN IF competitor_id = NoId
          THEN LightUnassigned(d, event, item, "Control card unknown")
          ELSE LET matching == CourseMatches(d, event, item.result)
               IN {Raise(d, "compute_result")} \cup
                  (IF UniqueMatch(matching)
                   THEN AutoRegister(d, event, item, competitor_id, matching[1])
                   ELSE LightUnassigned(d, event, item, "No unique matching course"))

\* standard mode: the entries with the card's chip that have a class / have none
assigned_entries(d, event, item) ==
  SelectSeq(entries_with_chip(d, event, item), LAMBDA e : class_name(d, e) # NoneS)

unassigned_entries(d, event, item) ==
  SelectSeq(entries_with_chip(d, event, item), LAMBDA e : class_name(d, e) = NoneS)

\* variant: a duplicate only when the whole stored result equals the card's
DuplicatesExact(assigned, result) ==
  SelectSeq(assigned, LAMBDA e : e.result = result)

\* the assigned entries that already store the incoming SI punches
Duplicates(assigned, result) ==
  SelectSeq(assigned, LAMBDA e : same_si_punches(e.result, result))

\* variant: any unassigned entry of the chip counts as the read-out
ReadOutAny(unassigned, result) == unassigned

\* "check if result is already read out": the unassigned entries with the same SI punches
ReadOut(unassigned, result) ==
  SelectSeq(unassigned, LAMBDA e : same_si_punches(e.result, result))

\* variant: the sole assigned entry is overwritten even when it has punches
CanMergePunched(assigned, unassigned, result) ==
  /\ Len(assigned) = 1
  /\ \/ Len(unassigned) = 0
     \/ /\ Len(unassigned) = 1
        /\ same_si_punches(unassigned[1].result, result)

\* "result can be assigned to an entry if ..."
CanMerge(assigned, unassigned, result) ==
  /\ Len(assigned) = 1
  /\ ~has_punches(assigned[1].result)
  /\ \/ Len(unassigned) = 0
     \/ /\ Len(unassigned) = 1
        /\ same_si_punches(unassigned[1].result, result)

\* variant: the merged unassigned entry is kept
DeleteMergedNever(unassigned, readOut) == FALSE

\* `if unassigned_entries == [unassigned_entry]`
DeleteMerged(unassigned, readOut) ==
  Len(unassigned) = 1 /\ Len(readOut) > 0 /\ unassigned[1] = readOut[1]

\* variant: every unassigned read-out is inserted
InsertUnassignedAlways(readOut) == TRUE

\* `if unassigned_entry is None`
InsertUnassigned(readOut) == Len(readOut) = 0

\* variant: two assigned entries are not yet "several"
UnassignedErrorOff(nAssigned) ==
  IF nAssigned = 0 THEN "Control card unknown"
  ELSE IF nAssigned > 2 THEN "There are several entries for this card"
  ELSE "There are other results for this card"

\* the error of the unassigned branch, by the number of assigned entries
UnassignedError(nAssigned) ==
  IF nAssigned = 0 THEN "Control card unknown"
  ELSE IF nAssigned >= 2 THEN "There are several entries for this card"
  ELSE "There are other results for this card"

\* the controls and parameters of a class; ClassParams() and [] on a KeyError
ClassCourse(d, class_id) ==
  IF has_class(d, class_id) /\ has_course(d, get_class(d, class_id).course_id)
  THEN [class_params |-> get_class(d, class_id).params,
        controls |-> get_course(d, get_class(d, class_id).course_id).controls]
  ELSE [class_params |-> DefaultParams, controls |-> <<>>]

StandardMerge(d, event, item, entry, unassigned, readOut) ==
  LET cc == ClassCourse(d, entry.class_id)
      result == compute_result(item.result, cc.controls, cc.class_params,
                               entry.start.start_time)
      d2 == update_entry_result(d, entry.id, entry.chip, result, entry.start.start_time)
      res == Response(entry.chip, first_name(d, entry), last_name(d, entry),
                      class_name(d, entry), result.status, result.time, NoneS,
                      missing_controls(result), Absent)
  IN {Raise(d, "compute_result"), Raise(d, "update_entry_result")} \cup
     (IF DeleteMerged(unassigned, readOut)
      THEN {Cleared(Raise(d2, "delete_entry"), event.id),
            Cleared(Return(delete_entry(d2, readOut[1].id), res), event.id)}
      ELSE {Cleared(Return(d2, res), event.id)})

StandardUnassigned(d, event, item, nAssigned, readOut) ==
  LET result == compute_result(item.result, <<>>, DefaultParams, NoTime)
      res == Response(item.control_card, NoneS, NoneS, NoneS, result.status, NoTime,
                      UnassignedError(nAssigned), Absent, Absent)
  IN {Raise(d, "compute_result")} \cup
     (IF InsertUnassigned(readOut)
      THEN {Raise(d, "add_entry_result"),
            Return(add_entry_result(d, event.id, item.control_card, result, NoStart), res)}
      ELSE {Return(d, res)})

StandardCardRead(d, event, item) ==
  LET assigned == assigned_entries(d, event, item)
      unassigned == unassigned_entries(d, event, item)
      dup == Duplicates(assigned, item.result)
      readOut == ReadOut(unassigned, item.result)
  IN IF Len(dup) > 0
     THEN {Return(d, Response(dup[1].chip, first_name(d, dup[1]), last_name(d, dup[1]),
                              class_name(d, dup[1]), dup[1].result.status,
                              dup[1].result.time, NoneS,
                              missing_controls(dup[1].result), Absent))}
     ELSE IF CanMerge(assigned, unassigned, item.result)
          THEN StandardMerge(d, event, item, assigned[1], unassigned, readOut)
          ELSE StandardUnassigned(d, event, item, Len(assigned), readOut)

\* the body of the `with model.db.transaction(mode=IMMEDIATE)` block
StoreCardreaderResult(d, event_key, item) ==
  LET found == EventsOfKey(d, event_key)
  IN IF Len(found) = 0 THEN {Raise(d, "EventNotFoundError")}
     ELSE IF item.entry_type = "cardRead"
          THEN IF found[1].light THEN LightCardRead(d, found[1], item)
               ELSE StandardCardRead(d, found[1], item)
          ELSE IF item.entry_type = "cardInserted"
          THEN {Return(d, [NoResponse EXCEPT !.controlCard = item.control_card])}
          ELSE {Return(d, NoResponse)}

\* variant: the writes of a raising block stay in the store
TransactionScopeNoRollback(pre, out) == out.db

\* the store after the call: the `with` block of store_cardreader_result
TransactionScope(pre, out) == Transaction(pre, out)

NoItem == [entry_type |-> "", control_card |-> "", result |-> PersonRaceResult("INACTIVE")]

\* the arguments of the calls that take no message
Args(id, event_id, competitor_id, class_id, chip, status, start_time, result_id, first, lastn) ==
  [id |-> id, event_id |-> event_id, competitor_id |-> competitor_id,
   class_id |-> class_id, chip |-> chip, status |-> status, start_time |-> start_time,
   result_id |-> result_id, first_name |-> first, last_name |-> lastn,
   gender |-> "", year |-> NoId, club_id |-> NoId, not_competing |-> FALSE]

NoArgs == Args(NoId, NoId, NoId, NoId, "", "", NoTime, NoId, "", "")

Messages ==
  CardReads \cup
  {[entry_type |-> "cardInserted", control_card |-> "c1", result |-> PersonRaceResult("INACTIVE")],
   [entry_type |-> "readerConnected", control_card |-> NoneS,
    result |-> PersonRaceResult("INACTIVE")]}

store_cardreader_result(event_key, item) ==
  \E out \in StoreCardreaderResult(db, event_key, item) :
    LET post == TransactionScope(db, out)
    IN /\ Bounded(post)
       /\ db' = post
       /\ cache' = clear_cache(cache, out.clear)
       /\ last' = [op |-> "store_cardreader_result",
                   event_key |-> event_key,
                   item |-> IF out.raised = "" THEN item ELSE NoItem,
                   args |-> NoArgs,
                   pre |-> db, raised |-> out.raised, res |-> out.res]
       /\ UNCHANGED procs

(***************************************************************************)
(* assign_name_to_light_entry                                              *)
(***************************************************************************)
\* "3. Delete existing chip entries": the store after the deletes
RECURSIVE DeleteAll(_, _, _)
DeleteAll(d, entries, k) ==
  IF k > Len(entries) THEN d ELSE DeleteAll(delete_entry(d, entries[k].id), entries, k + 1)

\* variant: a competitor that exists keeps the chip it has
FindOrCreateKeepChip(d, chip, first, lastn) ==
  LET id == get_competitor_by_name(d, first, lastn)
  IN IF id = NoId
     THEN [db |-> add_competitor(d, first, lastn, NoId, "", NoId, chip),
           competitor_id |-> NextCompetitorId(d)]
     ELSE [db |-> d, competitor_id |-> id]

\* "4. Find-or-create competitor, update chip"
FindOrCreate(d, chip, first, lastn) ==
  LET id == get_competitor_by_name(d, first, lastn)
  IN IF id = NoId
     THEN [db |-> add_competitor(d, first, lastn, NoId, "", NoId, chip),
           competitor_id |-> NextCompetitorId(d)]
     ELSE LET c == get_competitor(d, id)
          IN [db |-> update_competitor(d, c.id, c.first_name, c.last_name, c.club_id,
                                       c.gender, c.year, chip),
              competitor_id |-> id]

\* `if len(matching) == 1` of the re-run
AssignUniqueMatch(matching) == Len(matching) = 1

\* Step D of the re-run
AssignRegister(d, event, chip, competitor_id, m) ==
  LET d2 == add_entry(d, event.id, competitor_id, m.class_.id, NoId, FALSE, chip, m.r,
                      NoStart)
      entry == d2.entries[Len(d2.entries)]
  IN {Raise(d, "add_entry"),
      Cleared(Return(d2, Response(entry.chip, first_name(d2, entry), last_name(d2, entry),
                                  class_name(d2, entry), m.r.status, m.r.time, NoneS,
                                  missing_controls(m.r), "ok_registered")), event.id)}

\* Step E of the re-run
AssignUnassigned(d, event, chip, stored_result) ==
  LET result == compute_result(stored_result, <<>>, DefaultParams, NoTime)
  IN {Raise(d, "add_entry_result"),
      Return(add_entry_result(d, event.id, chip, result, NoStart),
             Response(chip, NoneS, NoneS, NoneS, result.status, NoTime,
                      "No unique matching course", Absent, "unassigned"))}

\* "2. Recover stored result": `entries_with_chip[0]` of an empty list raises
HasStoredResult(with_chip) == Len(with_chip) > 0

\* variant: the call returns when the chip has no entry
IndexErrorSwallowed(d) == {Return(d, NoResponse)}

\* the IndexError of `entries_with_chip[0]`
IndexError(d) == {Raise(d, "IndexError")}

\* the body of the `with model.db.transaction(mode=IMMEDIATE)` block
AssignNameToLightEntry(d, event_key, chip, first, lastn) ==
  LET found == EventsOfKey(d, event_key)
  IN IF Len(found) = 0 THEN {Raise(d, "EventNotFoundError")}
     ELSE LET event == found[1]
              with_chip == SelectSeq(get_entries(d, event.id), LAMBDA e : e.chip = chip)
          IN IF ~HasStoredResult(with_chip) THEN IndexError(d)
             ELSE LET stored_result == with_chip[1].result
                      d1 == DeleteAll(d, with_chip, 1)
                      fc == FindOrCreate(d1, chip, first, lastn)
                      matching == CourseMatches(fc.db, event, stored_result)
                  IN {Raise(delete_entry(d, with_chip[1].id), "delete_entry"),
                      Raise(d1, "update_competitor"), Raise(fc.db, "compute_result")} \cup
                     (IF AssignUniqueMatch(matching)
                      THEN AssignRegister(fc.db, event, chip, fc.competitor_id, matching[1])
                      ELSE AssignUnassigned(fc.db, event, chip, stored_result))

\* variant: the writes of a raising block stay in the store
AssignNoRollback(pre, out) == out.db

\* the store after the call: the `with` block of assign_name_to_light_entry
AssignTransactionScope(pre, out) == Transaction(pre, out)

assign_name_to_light_entry(event_key, chip, first, lastn) ==
  \E out \in AssignNameToLightEntry(db, event_key, chip, first, lastn) :
    LET post == AssignTransactionScope(db, out)
    IN /\ Bounded(post)
       /\ db' = post
       /\ cache' = clear_cache(cache, out.clear)
       /\ last' = [op |-> "assign_name_to_light_entry",
                   event_key |-> event_key, item |-> NoItem,
                   args |-> IF out.raised \in {"", "IndexError"}
                            THEN Args(NoId, NoId, NoId, NoId, chip, "", NoTime, NoId,
                                      first, lastn)
                            ELSE NoArgs,
                   pre |-> db, raised |-> out.raised, res |-> out.res]
       /\ UNCHANGED procs

(***************************************************************************)
(* import_iof_result_list                                                  *)
(***************************************************************************)
\* parse_result_list: the status of the list and its entries
ResultList(status, entries) == [status |-> status, entries |-> entries]

\* the body of the `with model.db.transaction(mode=IMMEDIATE)` block
ImportIofResultList(d, event_key, content) ==
  LET found == EventsOfKey(d, event_key)
  IN IF Len(found) = 0 THEN {Raise(d, "EventNotFoundError")}
     ELSE LET event == found[1]
              d1 == IF content.status # "DELTA"
                    THEN delete_classes(delete_entries(d, event.id), event.id)
                    ELSE d
          IN {Raise(d1, "import_entries"),
              Return(import_entries(d1, event.id, content.entries), NoResponse)}

\* variant: the block's writes stay when it raises
ImportNoRollback(pre, out) == out.db

\* the store after the call: the `with` block of import_iof_result_list
ImportTransactionScope(pre, out) == Transaction(pre, out)

import_iof_result_list(event_key, content) ==
  \E out \in ImportIofResultList(db, event_key, content) :
    LET post == ImportTransactionScope(db, out)
        found == EventsOfKey(db, event_key)
    IN /\ Bounded(post)
       /\ db' = post
       /\ cache' = IF out.raised = "" THEN clear_cache(cache, found[1].id) ELSE cache
       /\ last' = [op |-> "import_iof_result_list",
                   event_key |-> event_key, item |-> NoItem, args |-> NoArgs,
                   pre |-> db, raised |-> out.raised, res |-> out.res,
                   content |-> content]
       /\ UNCHANGED procs

(***************************************************************************)
(* add_or_update_entry                                                     *)
(***************************************************************************)
\* the scheduled start an operator may give an entry
ScheduledStart == S1 + 1

\* result_id: None, -1 (remove the result), or the id of the entry whose
\* result is taken
NoResult == NoId
RemoveResult == -1

\* variant: the replaced result is stored whatever result_id is
StoreReplacedAlways(d, entry, result_id) ==
  LET r == reset(entry.result)
  IN IF has_punches(r)
     THEN add_entry_result(d, entry.event_id, entry.chip,
                           compute_result(r, <<>>, DefaultParams, NoTime), NoStart)
     ELSE d

\* "store result as new entry": the entry's result, reset, is kept as an
\* unassigned entry when it has punches
StoreReplaced(d, entry, result_id) ==
  LET r == reset(entry.result)
  IN IF result_id # NoResult /\ has_punches(r)
     THEN add_entry_result(d, entry.event_id, entry.chip,
                           compute_result(r, <<>>, DefaultParams, NoTime), NoStart)
     ELSE d

\* variant: the submitted status is always taken
KeepsSubmittedStatusAlways(result_id, status, old_status) == TRUE

\* "update result status"
KeepsSubmittedStatus(result_id, status, old_status) ==
  result_id # RemoveResult \/ status # old_status \/ status = "DISQUALIFIED"

\* variant: the entry keeps the submitted chip
TransferredChipSubmitted(chip, result_entry) == chip

\* "result will be replaced": chip = result_entry.chip
TransferredChip(chip, result_entry) == result_entry.chip

\* `return id`: what the call returns
Returned(id) == [id |-> id]

\* "compute new result": the settled result against the class's course, stored
\* on the entry with the settled chip
ComputeAndStore(d, id, class_id, chip, result, start_time) ==
  LET cc == ClassCourse(d, class_id)
      computed == compute_result(result, cc.controls, cc.class_params, start_time)
  IN {Raise(d, "compute_result"), Raise(d, "update_entry_result"),
      Return(update_entry_result(d, id, chip, computed, start_time), Returned(id))}

\* variant: the class is probed before the entry and the competitor
ReprobeClassFirst(d, event_id, id, competitor_id, class_id, club_id, original) ==
  IF ~has_event(d, event_id) THEN "EventNotFoundError"
  ELSE IF ~has_class(d, class_id) THEN "Class deleted"
  ELSE IF id # NoId /\ ~has_entry(d, id) THEN "Entry deleted"
  ELSE IF competitor_id # NoId /\ ~has_competitor(d, competitor_id)
  THEN "Competitor deleted"
  ELSE IF club_id # NoId /\ ~has_club(d, club_id) THEN "Club deleted"
  ELSE original

\* the except block: the event, the entry, the competitor, the class and the
\* club are probed in this order; the first that is missing names the error,
\* and when none is missing the error that was caught is raised again
Reprobe(d, event_id, id, competitor_id, class_id, club_id, original) ==
  IF ~has_event(d, event_id) THEN "EventNotFoundError"
  ELSE IF id # NoId /\ ~has_entry(d, id) THEN "Entry deleted"
  ELSE IF competitor_id # NoId /\ ~has_competitor(d, competitor_id)
  THEN "Competitor deleted"
  ELSE IF ~has_class(d, class_id) THEN "Class deleted"
  ELSE IF club_id # NoId /\ ~has_club(d, club_id) THEN "Club deleted"
  ELSE original

\* what the except block reads: the call's event and class, and the locals
\* id, competitor_id and club_id as the try body left them
Locals(a, id, competitor_id, club_id) ==
  [event_id |-> a.event_id, id |-> id, competitor_id |-> competitor_id,
   class_id |-> a.class_id, club_id |-> club_id]

\* `except (sqlite3.IntegrityError, repo.ConstraintError, KeyError)`
Caught(d, loc, original) ==
  Raise(d, Reprobe(d, loc.event_id, loc.id, loc.competitor_id, loc.class_id,
                   loc.club_id, original))

\* "update result if result_id is defined", "update result status", "compute
\* new result": the result the entry gets (none, that of entry result_id, or
\* its own), with its status settled, computed and stored
UpdateResult(d, loc, chip, status, start_time, result_id, result, old_status) ==
  LET settled(r) == IF KeepsSubmittedStatus(result_id, status, old_status)
                    THEN [r EXCEPT !.status = status] ELSE r
  IN IF result_id = RemoveResult
     THEN ComputeAndStore(d, loc.id, loc.class_id, chip,
                          settled(PersonRaceResult("INACTIVE")), start_time)
     ELSE IF result_id # NoResult
     THEN IF ~has_entry(d, result_id) THEN {Caught(d, loc, "Result deleted")}
          ELSE LET result_entry == get_entry(d, result_id)
               IN {Raise(d, "delete_entry")} \cup
                  ComputeAndStore(delete_entry(d, result_id), loc.id, loc.class_id,
                                  TransferredChip(chip, result_entry),
                                  settled(result_entry.result), start_time)
     ELSE ComputeAndStore(d, loc.id, loc.class_id, chip, settled(result), start_time)

\* the store refuses a competitor whose name another competitor has
NameTaken(d, id, first, lastn) ==
  \E c \in Range(d.competitors) :
    c.id # id /\ c.first_name = first /\ c.last_name = lastn

\* variant: the submitted value is always taken
OwnOrSubmittedAlways(own, submitted, unset) == submitted

\* `if competitor.club_id is None`, `if competitor.chip == ""`: a value the
\* competitor has is kept, one it lacks is filled from the form
OwnOrSubmitted(own, submitted, unset) == IF own = unset THEN submitted ELSE own

\* id is None: the competitor is the one given, or is found by name, or is
\* added; the competitor is updated and the entry is added
AddEntry(d, a) ==
  LET com == IF a.competitor_id = NoId
             THEN get_competitor_by_name(d, a.first_name, a.last_name) ELSE NoId
      found == a.competitor_id = NoId /\ com # NoId
      added == a.competitor_id = NoId /\ com = NoId
      competitor_id == IF a.competitor_id # NoId THEN a.competitor_id
                       ELSE IF found THEN com ELSE NextCompetitorId(d)
      gender == IF found /\ a.gender = "" THEN get_competitor(d, com).gender ELSE a.gender
      year == IF found /\ a.year = NoId THEN get_competitor(d, com).year ELSE a.year
      chip == IF found /\ a.chip = "" THEN get_competitor(d, com).chip ELSE a.chip
      club_id == IF found /\ a.club_id = NoId THEN get_competitor(d, com).club_id
                 ELSE a.club_id
      d0 == IF added
            THEN add_competitor(d, a.first_name, a.last_name, club_id, gender, year, chip)
            ELSE d
  IN IF added /\ club_id # NoId /\ ~has_club(d, club_id)
     THEN {Caught(d, Locals(a, NoId, NoId, club_id), "IntegrityError")}
     ELSE IF ~has_competitor(d0, competitor_id)
     THEN {Caught(d0, Locals(a, NoId, competitor_id, club_id), "KeyError")}
     ELSE
       LET competitor == get_competitor(d0, competitor_id)
           own_club == OwnOrSubmitted(competitor.club_id, club_id, NoId)
           own_chip == OwnOrSubmitted(competitor.chip, chip, "")
           d1 == update_competitor(d0, competitor.id, a.first_name, a.last_name,
                                   own_club, gender, year, own_chip)
           d2 == add_entry(d1, a.event_id, competitor_id, a.class_id, club_id,
                           a.not_competing, chip, PersonRaceResult(a.status),
                           a.start_time)
           id == NextEntryId(d1)
           loc == Locals(a, NoId, competitor_id, club_id)
       IN IF NameTaken(d0, competitor.id, a.first_name, a.last_name)
          THEN {Caught(d0, loc, "Competitor already exist")}
          ELSE IF own_club # NoId /\ ~has_club(d0, own_club)
          THEN {Caught(d0, loc, "IntegrityError")}
          ELSE IF \/ ~has_event(d1, a.event_id)
                  \/ a.class_id # NoId /\ ~has_class(d1, a.class_id)
                  \/ club_id # NoId /\ ~has_club(d1, club_id)
          THEN {Caught(d1, loc, "IntegrityError")}
          ELSE {Raise(d1, "add_entry")} \cup
               UpdateResult(d2, Locals(a, id, competitor_id, club_id), chip, a.status,
                            a.start_time, a.result_id, PersonRaceResult("INACTIVE"),
                            PersonRaceResult("INACTIVE").status)

\* id is given: the entry is updated
UpdateEntry(d, a) ==
  LET loc == Locals(a, a.id, a.competitor_id, a.club_id)
  IN IF ~has_entry(d, a.id) THEN {Caught(d, loc, "KeyError")}
     ELSE
       LET entry == get_entry(d, a.id)
           d1 == StoreReplaced(d, entry, a.result_id)
       IN IF ~has_competitor(d1, entry.competitor_id) THEN {Caught(d1, loc, "KeyError")}
          ELSE
            LET competitor == get_competitor(d1, entry.competitor_id)
                d2 == update_competitor(d1, competitor.id, a.first_name, a.last_name,
                                        competitor.club_id, a.gender, a.year,
                                        competitor.chip)
                d3 == update_entry(d2, a.id, a.class_id, a.club_id, a.not_competing,
                                   a.chip, [entry.result EXCEPT !.status = a.status],
                                   a.start_time)
            IN IF NameTaken(d1, competitor.id, a.first_name, a.last_name)
               THEN {Caught(d1, loc, "Competitor already exist")}
               ELSE IF \/ a.class_id # NoId /\ ~has_class(d2, a.class_id)
                       \/ a.club_id # NoId /\ ~has_club(d2, a.club_id)
               THEN {Caught(d2, loc, "IntegrityError")}
               ELSE UpdateResult(d3, loc, a.chip, a.status, a.start_time, a.result_id,
                                 entry.result, entry.result.status)

\* the body of the `with model.db.transaction(mode=IMMEDIATE)` block
AddOrUpdateEntry(d, a) == IF a.id = NoId THEN AddEntry(d, a) ELSE UpdateEntry(d, a)

\* the errors of the store that the except clause does not catch
StoreFailures == {"add_entry", "delete_entry", "compute_result", "update_entry_result"}

\* variant: the writes made before the exception stay in the store
EntryNoRollback(pre, out) == out.db

\* the store after the call: the `with` block of add_or_update_entry
EntryTransactionScope(pre, out) == Transaction(pre, out)

add_or_update_entry(a) ==
  \E out \in AddOrUpdateEntry(db, a) :
    LET post == EntryTransactionScope(db, out)
    IN /\ Bounded(post)
       /\ db' = post
       /\ cache' = IF out.raised = "" THEN clear_cache(cache, a.event_id) ELSE cache
       /\ last' = [op |-> "add_or_update_entry", event_key |-> "", item |-> NoItem,
                   args |-> IF out.raised \in StoreFailures THEN NoArgs ELSE a,
                   pre |-> db, raised |-> out.raised, res |-> out.res]
       /\ UNCHANGED procs

\* the entry form as it is submitted: the name, the gender and the year are
\* those of the competitor picked for a new entry, or of the edited entry's
FormCompetitor(d, a) ==
  IF a.id = NoId THEN a.competitor_id
  ELSE IF has_entry(d, a.id) THEN get_entry(d, a.id).competitor_id ELSE NoId

Filled(d, a) ==
  LET c == FormCompetitor(d, a)
  IN IF has_competitor(d, c)
     THEN [a EXCEPT !.first_name = get_competitor(d, c).first_name,
                    !.last_name = get_competitor(d, c).last_name,
                    !.gender = get_competitor(d, c).gender,
                    !.year = get_competitor(d, c).year]
     ELSE a

(***************************************************************************)
(* edit_entry_result                                                       *)
(***************************************************************************)
\* selected_row: "START", "FINISH", or the number of a split time (from 1)
StartRow == -1
FinishRow == -2

\* split_times.pop(row) / split_times.insert(row, x), rows counted from 1
PopRow(rows, k) == [i \in 1..(Len(rows) - 1) |-> IF i < k THEN rows[i] ELSE rows[i + 1]]
InsertRow(rows, k, x) ==
  LET at == IF k > Len(rows) THEN Len(rows) + 1 ELSE k
  IN [i \in 1..(Len(rows) + 1) |->
        IF i < at THEN rows[i] ELSE IF i = at THEN x ELSE rows[i - 1]]

\* variant: "entr_ep_del" removes the row whether the card had the punch or not
EditedResultPops(result, command, control, selected_row, punch_time) ==
  IF selected_row = StartRow THEN [result EXCEPT !.punched_start_time = punch_time]
  ELSE IF selected_row = FinishRow THEN [result EXCEPT !.punched_finish_time = punch_time]
  ELSE IF command = "entr_ep_del"
  THEN [result EXCEPT !.split_times = PopRow(@, selected_row)]
  ELSE IF command = "entr_ep_edit"
  THEN [result EXCEPT !.split_times[selected_row].punch_time = punch_time]
  ELSE [result EXCEPT !.split_times =
          InsertRow(@, selected_row, SplitTime(control, punch_time, NoTime, NoTime, "ADDITIONAL"))]

\* the result after the edit, before it is computed anew
EditedResult(result, command, control, selected_row, punch_time) ==
  IF selected_row = StartRow THEN [result EXCEPT !.punched_start_time = punch_time]
  ELSE IF selected_row = FinishRow THEN [result EXCEPT !.punched_finish_time = punch_time]
  ELSE IF command = "entr_ep_del"
  THEN IF result.split_times[selected_row].si_punch_time = NoTime
       THEN [result EXCEPT !.split_times = PopRow(@, selected_row)]
       ELSE [result EXCEPT !.split_times[selected_row].punch_time = NoTime]
  ELSE IF command = "entr_ep_edit"
  THEN [result EXCEPT !.split_times[selected_row].punch_time = punch_time]
  ELSE [result EXCEPT !.split_times =
          InsertRow(@, selected_row, SplitTime(control, punch_time, NoTime, NoTime, "ADDITIONAL"))]

\* the body of the `with model.db.transaction(mode=IMMEDIATE)` block
EditEntryResult(d, entry_id, command, control, selected_row, punch_time) ==
  IF ~has_entry(d, entry_id) THEN {Raise(d, "KeyError")}
  ELSE LET entry == get_entry(d, entry_id)
           rows == entry.result.split_times
       IN IF /\ selected_row \notin {StartRow, FinishRow}
             /\ command # "entr_ep_add"
             /\ selected_row > Len(rows)
          THEN {Raise(d, "IndexError")}
          ELSE LET result == EditedResult(entry.result, command, control, selected_row,
                                          punch_time)
                   cc == ClassCourse(d, entry.class_id)
                   computed == compute_result(result, cc.controls, cc.class_params,
                                              entry.start.start_time)
               IN {Raise(d, "compute_result"), Raise(d, "update_entry_result"),
                   Return(update_entry_result(d, entry.id, entry.chip, computed,
                                              entry.start.start_time), NoResponse)}

edit_entry_result(entry_id, event_id, command, control, selected_row, punch_time) ==
  \E out \in EditEntryResult(db, entry_id, command, control, selected_row, punch_time) :
    /\ db' = Transaction(db, out)
    /\ cache' = IF out.raised = "" THEN clear_cache(cache, event_id) ELSE cache
    /\ last' = [op |-> "edit_entry_result", event_key |-> "", item |-> NoItem,
                args |-> IF out.raised = ""
                         THEN [NoArgs EXCEPT !.id = entry_id, !.event_id = event_id]
                         ELSE NoArgs,
                pre |-> db, raised |-> out.raised, res |-> out.res]
    /\ UNCHANGED procs

(***************************************************************************)
(* The ranking query: store read, result engine on cached or fresh entries *)
(***************************************************************************)
\* the ranking of an event is built from the cached entries when the cache
\* holds some, otherwise from the entries read from the store, which it caches
event_class_results(event_id) ==
  /\ cache' = IF cache[event_id] = NoCache
              THEN [cache EXCEPT ![event_id] = Cached(get_entries(db, event_id))]
              ELSE cache
  /\ last' = [op |-> "event_class_results", event_key |-> "", item |-> NoItem,
              args |-> [NoArgs EXCEPT !.event_id = event_id],
              pre |-> db, raised |-> "", res |-> NoResponse]
  /\ UNCHANGED <<db, procs>>

(***************************************************************************)
(* Calls in flight.  Each mutating call runs its body inside                 *)
(* `with model.db.transaction(mode=TransactionMode.IMMEDIATE)`: the block    *)
(* takes the store's write lock when it is entered and gives it back when    *)
(* it commits or rolls back; readers see the committed store.                *)
(***************************************************************************)
Procs == {1, 2}

\* a process that is in no call
Idle == [pc |-> "idle"]

Call(op, event_key, item, args) ==
  [op |-> op, event_key |-> event_key, item |-> item, args |-> args]

\* the ends of the block of a call, entered on store d
Handler(d, call) ==
  CASE call.op = "store_cardreader_result" ->
         StoreCardreaderResult(d, call.event_key, call.item)
    [] call.op = "assign_name_to_light_entry" ->
         AssignNameToLightEntry(d, call.event_key, call.args.chip,
                                call.args.first_name, call.args.last_name)
    [] call.op = "add_or_update_entry" -> AddOrUpdateEntry(d, call.args)

\* variant: the block is entered without the write lock
WriteLockIgnored(p) == TRUE

\* mode=IMMEDIATE: the block is entered when no other block is open
WriteLockFree(p) == \A q \in Procs \ {p} : procs[q].pc # "open"

\* the block is entered; its reads and writes see the store of this moment
Begin(p, call) ==
  /\ procs[p].pc = "idle"
  /\ WriteLockFree(p)
  /\ \E out \in Handler(db, call) :
       /\ Bounded(out.db)
       /\ procs' = [procs EXCEPT ![p] = [pc |-> "open", call |-> call, out |-> out,
                                         cleared |-> FALSE]]
  /\ UNCHANGED <<db, cache, last>>

\* cached_result.clear_cache(...) called inside the block (results.py 200,
\* 330 and 466)
ClearInBlock(p) ==
  /\ procs[p].pc = "open"
  /\ procs[p].out.clear # NoId
  /\ ~procs[p].cleared
  /\ cache' = clear_cache(cache, procs[p].out.clear)
  /\ procs' = [procs EXCEPT ![p].cleared = TRUE]
  /\ UNCHANGED <<db, last>>

\* the block is left: its writes are committed, or rolled back when it raised
Commit(p) ==
  /\ procs[p].pc = "open"
  /\ procs[p].out.clear # NoId => procs[p].cleared
  /\ db' = IF procs[p].out.raised # "" THEN db ELSE procs[p].out.db
  /\ procs' = [procs EXCEPT ![p].pc = "closed"]
  /\ UNCHANGED <<cache, last>>

\* the rest of the call after the block: add_or_update_entry clears the
\* cache (entries.py 261) when the block did not raise; then the call ends
Finish(p) ==
  /\ procs[p].pc = "closed"
  /\ cache' = IF procs[p].call.op = "add_or_update_entry" /\ procs[p].out.raised = ""
              THEN clear_cache(cache, procs[p].call.args.event_id)
              ELSE cache
  /\ procs' = [procs EXCEPT ![p].pc = "done"]
  /\ UNCHANGED <<db, last>>

(***************************************************************************)
(* The system.                                                             *)
(***************************************************************************)

InitDb(light, chip1) ==
  [events |-> <<Event(2, "", FALSE), Event(3, NoneS, FALSE), Event(1, EventKey, light)>>,
   courses |-> <<Course(1, 1, <<"101">>), Course(2, 1, <<"102">>)>>,
   classes |-> <<Class(1, 1, "Elite", 1, DefaultParams),
                 Class(2, 1, "Open", 1, [otype |-> "net"]),
                 Class(3, 1, "Guests", 2, DefaultParams),
                 Class(4, 1, "Helpers", NoId, DefaultParams)>>,
   competitors |-> <<Competitor(1, "Jane", "Doe", chip1),
                     Competitor(2, "John", "Roe", "")>>,
   clubs |-> <<Club(1, "OC Bundestag")>>,
   entries |-> <<>>,
   seq |-> 0]

Init ==
  \E light \in BOOLEAN, chip1 \in Chips :
    /\ db = InitDb(light, chip1)
    /\ last = [op |-> "init", event_key |-> "", item |-> NoItem, args |-> NoArgs,
               pre |-> InitDb(light, chip1), raised |-> "", res |-> NoResponse]
    /\ cache = [e \in EventIds |-> NoCache]
    /\ procs = [p \in Procs |-> Idle]

CardReader ==
  \E item \in Messages : store_cardreader_result(EventKey, item)

\* a message under a key that no event has, or under the empty key
UnknownKey ==
  \E event_key \in {"", "0815"} :
    store_cardreader_result(event_key, CHOOSE item \in CardReads : TRUE)

\* the registrations of the model: competitor, class, chip and scheduled start
RegistrationForms ==
  {<<1, 1, "c1", NoTime>>, <<1, 1, "c2", ScheduledStart>>,
   <<2, 1, "c1", ScheduledStart>>, <<2, 4, "c1", NoTime>>}

Registration ==
  \E f \in RegistrationForms :
    add_or_update_entry(Filled(db, Args(NoId, 1, f[1], f[2], f[3], "INACTIVE", f[4], NoResult, "", "")))

Next == CardReader \/ UnknownKey \/ Registration

\* the names an operator gives a chip: two known competitors and a new one
Names == {<<"Jane", "Doe">>, <<"John", "Roe">>, <<"Ann", "Poe">>}

AssignName ==
  \E chip \in Chips, n \in Names :
    assign_name_to_light_entry(EventKey, chip, n[1], n[2])

\* the three entry points under the empty key and under a key no event has
NoSuchEvent ==
  \E event_key \in {"", "0815"} :
    \/ store_cardreader_result(event_key, CHOOSE item \in CardReads : TRUE)
    \/ assign_name_to_light_entry(event_key, "c1", "Jane", "Doe")
    \/ import_iof_result_list(event_key, ResultList("COMPLETE", <<>>))

ImportResultList ==
  \E status \in {"DELTA", "COMPLETE"} :
    import_iof_result_list(EventKey, ResultList(status, <<>>))

\* the light event with its operator: a competitor registered beforehand with
\* another chip, card reads, names given to chips, result lists
InitAssign ==
  \E chip1 \in Chips :
    /\ db = InitDb(TRUE, chip1)
    /\ last = [op |-> "init", event_key |-> "", item |-> NoItem, args |-> NoArgs,
               pre |-> InitDb(TRUE, chip1), raised |-> "", res |-> NoResponse]
    /\ cache = [e \in EventIds |-> NoCache]
    /\ procs = [p \in Procs |-> Idle]

LightCards ==
  {[entry_type |-> "cardRead", control_card |-> "c1", result |-> r] :
     r \in {CardResult(S1, F1, <<"101">>), CardResult(S1, F1, <<"102">>),
            CardResult(S1, NoTime, <<"101">>)}}

LightCardReader == \E item \in LightCards : store_cardreader_result(EventKey, item)

EarlyRegistration ==
  add_or_update_entry(Filled(db, Args(NoId, 1, 1, 1, "c2", "INACTIVE", ScheduledStart, NoResult, "", "")))

NextAssign ==
  LightCardReader \/ EarlyRegistration \/ AssignName \/ NoSuchEvent \/ ImportResultList

SpecAssign == InitAssign /\ [][NextAssign]_vars

\* the event with card reads, registrations and readers of its ranking
Ranking == event_class_results(1)

CacheCardReader == \E item \in LightCards : store_cardreader_result(EventKey, item)

NextCache == CacheCardReader \/ Registration \/ Ranking

SpecCache == Init /\ [][NextCache]_vars

\* the light event with card reads, readers of its ranking and result lists
\* of every status, empty or with the result of one runner
ResultListStatus == {"COMPLETE", "DELTA", "SNAPSHOT"}

ListEntries ==
  {<<>>, <<Entry(NoId, NoId, NoId, NoId, NoId, FALSE, "c2", CardResult(S1, F1, <<"101">>), NoTime)>>}

ImportLists ==
  \E status \in ResultListStatus, entries \in ListEntries :
    import_iof_result_list(EventKey, ResultList(status, entries))

\* the light event with its three classes in every assignment of the courses
\* (101), (102), none and a course that is gone
CopyClasses ==
  {<<Class(1, 1, "Elite", k1, DefaultParams), Class(2, 1, "Open", k2, [otype |-> "net"]),
     Class(3, 1, "Guests", k3, DefaultParams)>> :
     k1 \in {1, 2, NoId}, k2 \in {1, 2, 9}, k3 \in {1, 2, NoId}}

InitCopies ==
  \E chip1 \in Chips, classes \in CopyClasses :
    /\ db = [InitDb(TRUE, chip1) EXCEPT !.classes = classes]
    /\ last = [op |-> "init", event_key |-> "", item |-> NoItem, args |-> NoArgs,
               pre |-> db, raised |-> "", res |-> NoResponse]
    /\ cache = [e \in EventIds |-> NoCache]
    /\ procs = [p \in Procs |-> Idle]

CopyBounded(d) == d.seq <= MaxCopies

CopyCards ==
  {[entry_type |-> "cardRead", control_card |-> "c1", result |-> r] :
     r \in {CardResult(S1, F1, <<"101">>), CardResult(S1, F1, <<"102">>),
            CardResult(S1, F1, <<"102", "101">>)}}

CopyCardReader ==
  \E item \in CopyCards :
    /\ store_cardreader_result(EventKey, item)
    /\ CopyBounded(db')

CopyAssignName ==
  \E n \in {<<"Jane", "Doe">>, <<"Ann", "Poe">>} :
    /\ assign_name_to_light_entry(EventKey, "c1", n[1], n[2])
    /\ CopyBounded(db')

NextCopies == CopyCardReader \/ CopyAssignName

SpecCopies == InitCopies /\ [][NextCopies]_vars

\* the light event with card reads, readers of its ranking and names given
\* to chips with and without an entry
NextNames == LightCardReader \/ Ranking \/ AssignName

SpecNames == InitAssign /\ [][NextNames]_vars

NextImport == LightCardReader \/ Ranking \/ ImportLists

SpecImport == InitAssign /\ [][NextImport]_vars

\* two clients call at the same time on the light event, in which Jane Doe
\* owns chip c1, while readers ask for the ranking
TxnDb == InitDb(TRUE, "c1")

InitTxn ==
  /\ db = TxnDb
  /\ last = [op |-> "init", event_key |-> "", item |-> NoItem, args |-> NoArgs,
             pre |-> TxnDb, raised |-> "", res |-> NoResponse]
  /\ cache = [e \in EventIds |-> NoCache]
  /\ procs = [p \in Procs |-> Idle]

TxnCalls ==
  {Call("store_cardreader_result", EventKey,
        [entry_type |-> "cardRead", control_card |-> "c1",
         result |-> CardResult(S1, F1, <<"102">>)], NoArgs),
   Call("assign_name_to_light_entry", EventKey, NoItem,
        Args(NoId, NoId, NoId, NoId, "c1", "", NoTime, NoId, "John", "Roe")),
   Call("add_or_update_entry", "", NoItem,
        Args(NoId, 1, 1, 1, "c2", "INACTIVE", ScheduledStart, NoResult, "", ""))}

Enter == \E p \in Procs, call \in TxnCalls : Begin(p, call)

InBlock == \E p \in Procs : ClearInBlock(p)

Leave == \E p \in Procs : Commit(p)

End == \E p \in Procs : Finish(p)

NextTxn == Enter \/ InBlock \/ Leave \/ End \/ Ranking

SpecTxn == InitTxn /\ [][NextTxn]_vars

\* the standard event with its entries desk: a registration, card reads and
\* the edits of an entry (class, status, and what to do with the result)
InitEntries ==
  /\ db = InitDb(FALSE, "c2")
  /\ last = [op |-> "init", event_key |-> "", item |-> NoItem, args |-> NoArgs,
             pre |-> InitDb(FALSE, "c2"), raised |-> "", res |-> NoResponse]
  /\ cache = [e \in EventIds |-> NoCache]
  /\ procs = [p \in Procs |-> Idle]

\* the stores explored at the entries desk
DeskBounded(d) == Len(d.entries) <= MaxDeskEntries /\ d.seq <= MaxDeskId

\* the results the form offers: those of the entries without competitor
OfferedResults == {e.id : e \in {x \in Range(db.entries) : x.competitor_id = NoId}}

\* John Roe is entered in class Guests, without a result or with an offered one
DeskRegistration ==
  \E result_id \in {NoResult} \cup OfferedResults :
    /\ add_or_update_entry(Filled(db, Args(NoId, 1, 2, 3, "c2", "INACTIVE", NoTime, result_id, "", "")))
    /\ DeskBounded(db')

DeskCards ==
  {[entry_type |-> "cardRead", control_card |-> "c1", result |-> r] :
     r \in {CardResult(S1, F1, <<"101">>), CardResult(S1, F1, <<"102">>)}}

DeskCardReader ==
  \E item \in DeskCards :
    /\ store_cardreader_result(EventKey, item)
    /\ DeskBounded(db')

EditStatuses == {"OK", "DISQUALIFIED"}

\* an edit moves the entry to class Elite, with the chip c2 in the form
EditEntry ==
  \E id \in 1..MaxDeskId, status \in EditStatuses,
     result_id \in {NoResult, RemoveResult} \cup OfferedResults :
    /\ result_id # id
    /\ add_or_update_entry(Filled(db, Args(id, 1, NoId, 1, "c2", status, NoTime, result_id, "", "")))
    /\ DeskBounded(db')

NextEntries == DeskRegistration \/ DeskCardReader \/ EditEntry

SpecEntries == InitEntries /\ [][NextEntries]_vars

\* the edits of the result form: a finish time typed in, a punch added by
\* hand before the first row, the first row deleted
ResultEdits ==
  {<<"entr_ep_edit", "", FinishRow, F1 + 1>>,
   <<"entr_ep_add", "102", 1, S1 + 1>>, <<"entr_ep_del", "", 1, NoTime>>}

\* the card that is read at the result form's desk
EditCardReader ==
  /\ store_cardreader_result(EventKey, [entry_type |-> "cardRead", control_card |-> "c1",
                                        result |-> CardResult(S1, NoTime, <<"101">>)])
  /\ DeskBounded(db')

EditResult ==
  \E id \in 1..MaxDeskId, e \in ResultEdits :
    /\ edit_entry_result(id, 1, e[1], e[2], e[3], e[4])
    /\ \A x \in Range(db'.entries) : Len(x.result.split_times) <= MaxRows

\* John Roe registers with the chip of the cards
EditRegistration ==
  /\ add_or_update_entry(Filled(db, Args(NoId, 1, 2, 3, "c1", "INACTIVE", NoTime, NoResult, "", "")))
  /\ DeskBounded(db')

\* an entry loses its result, or gets the result of an entry without competitor
RemoveOrReplace ==
  \E id \in 1..MaxDeskId, result_id \in {RemoveResult} \cup OfferedResults :
    /\ result_id # id
    /\ add_or_update_entry(Filled(db, Args(id, 1, NoId, 3, "c2", "OK", NoTime, result_id, "", "")))
    /\ DeskBounded(db')

NextEdits == EditRegistration \/ EditCardReader \/ EditResult \/ RemoveOrReplace

SpecEdits == InitEntries /\ [][NextEdits]_vars

\* the result form with every command on every row of the first entry: the
\* card of chip c1 is read before or after John Roe registers with that chip
\* in class Guests
SiCard == CardResult(S1, F1, <<"101">>)

SiCardReader ==
  /\ store_cardreader_result(EventKey, [entry_type |-> "cardRead", control_card |-> "c1",
                                        result |-> SiCard])
  /\ DeskBounded(db')

EditEveryRow ==
  \E command \in {"entr_ep_edit", "entr_ep_add", "entr_ep_del"},
     selected_row \in {StartRow, FinishRow} \cup 1..MaxRows, punch_time \in {NoTime, S1 + 1} :
    /\ edit_entry_result(1, 1, command, "102", selected_row, punch_time)
    /\ \A x \in Range(db'.entries) : Len(x.result.split_times) <= MaxRows

NextSiData == EditRegistration \/ SiCardReader \/ EditEveryRow

SpecSiData == InitEntries /\ [][NextSiData]_vars

\* the entry form with a club and the not-competing mark, at a desk that
\* makes two entries
FormsDb ==
  [InitDb(FALSE, "c1") EXCEPT !.clubs = <<Club(1, "OC Bundestag"), Club(2, "OL Bundestag")>>]

InitForms ==
  /\ db = FormsDb
  /\ last = [op |-> "init", event_key |-> "", item |-> NoItem, args |-> NoArgs,
             pre |-> FormsDb, raised |-> "", res |-> NoResponse]
  /\ cache = [e \in EventIds |-> NoCache]
  /\ procs = [p \in Procs |-> Idle]

FormsBounded(d) == Len(d.entries) <= MaxFormEntries /\ d.seq <= MaxFormEntries

\* competitor and name of the add form: Jane Doe (who has a chip) picked,
\* John Roe (who has none) picked, John Roe typed
AddFormNames == {<<1, "Jane", "Doe">>, <<2, "John", "Roe">>, <<NoId, "John", "Roe">>}

FormClubs == {NoId, 1, 2}

AddForm ==
  \E n \in AddFormNames, club_id \in FormClubs, not_competing \in BOOLEAN :
    /\ add_or_update_entry(
         [Args(NoId, 1, n[1], 1, "c2", "INACTIVE", NoTime, NoResult, n[2], n[3])
          EXCEPT !.club_id = club_id, !.not_competing = not_competing])
    /\ FormsBounded(db')

\* the edit form of an entry: another chip and another club
EditForm ==
  \E id \in 1..MaxFormEntries, club_id \in {NoId, 2} :
    /\ add_or_update_entry(
         Filled(db, [Args(id, 1, NoId, 1, "c1", "INACTIVE", NoTime, NoResult, "", "")
                     EXCEPT !.club_id = club_id]))
    /\ FormsBounded(db')

NextForms == AddForm \/ EditForm

SpecForms == InitForms /\ [][NextForms]_vars

\* the entry form submitted after rows it refers to were deleted: the event,
\* the entry, the competitor, the class, the club or the result (the id Gone
\* is the id of a deleted row)
Gone == 9

\* competitor and name of the add form: John Roe picked, Ann Poe typed, John
\* Roe picked and renamed to Jane Doe, a competitor that is deleted
GoneFormNames ==
  {<<2, "John", "Roe">>, <<NoId, "Ann", "Poe">>, <<2, "Jane", "Doe">>,
   <<Gone, "Ann", "Poe">>}

GoneBounded(d) == Len(d.entries) <= MaxGoneEntries /\ d.seq <= MaxGoneEntries

GoneAdd ==
  \E event_id \in {1, Gone}, n \in GoneFormNames, class_id \in {1, Gone},
     club_id \in {NoId, Gone}, result_id \in {NoResult, Gone} :
    /\ add_or_update_entry(
         [Args(NoId, event_id, n[1], class_id, "c2", "INACTIVE", NoTime, result_id,
               n[2], n[3])
          EXCEPT !.club_id = club_id])
    /\ GoneBounded(db')

\* the edit form of an entry, with the competitor's name kept or changed to
\* Jane Doe
GoneEdit ==
  \E id \in {1, Gone}, event_id \in {1, Gone}, competitor_id \in {NoId, Gone},
     rename \in BOOLEAN, class_id \in {3, Gone}, club_id \in {NoId, Gone},
     result_id \in {NoResult, Gone} :
    LET a == Filled(db, [Args(id, event_id, competitor_id, class_id, "c2", "INACTIVE",
                              NoTime, result_id, "", "")
                         EXCEPT !.club_id = club_id])
    IN /\ event_id = Gone => id = Gone
       /\ add_or_update_entry(IF rename
                              THEN [a EXCEPT !.first_name = "Jane", !.last_name = "Doe"]
                              ELSE a)
       /\ GoneBounded(db')

NextGone == GoneAdd \/ GoneEdit

SpecGone == InitForms /\ [][NextGone]_vars

\* the same forms while a card is read into the entry made and readers ask
\* for the ranking
UndoCardReader ==
  /\ store_cardreader_result(EventKey, [entry_type |-> "cardRead", control_card |-> "c2",
                                        result |-> CardResult(S1, F1, <<"101">>)])
  /\ GoneBounded(db')

NextUndo == GoneAdd \/ GoneEdit \/ UndoCardReader \/ Ranking

SpecUndo == InitForms /\ [][NextUndo]_vars

\* the result engine on its own: a result with a status, start and finish or
\* not, and up to MaxPunches punches, is computed against a course of up to
\* MaxControls controls, in order (standard) or in any order (net)
SeqsUpTo(S, n) == UNION {[1..k -> S] : k \in 0..n}

EngineStatuses == {"INACTIVE", "DID_NOT_START", "DID_NOT_FINISH", "DISQUALIFIED"}

EnginePunches ==
  {SplitTime(code, t, t, NoTime, "ADDITIONAL") :
     code \in Codes, t \in {NoTime, PunchTime(1), PunchTime(2)}}

EngineResults ==
  {[PersonRaceResult(status) EXCEPT
      !.punched_start_time = start, !.si_punched_start_time = start,
      !.punched_finish_time = finish, !.si_punched_finish_time = finish,
      !.split_times = punches] :
     status \in EngineStatuses, start \in {NoTime, S1}, finish \in {NoTime, F1},
     punches \in SeqsUpTo(EnginePunches, MaxPunches)}

\* what the engine is given (r, controls, params) and what it has computed
\* from it (out; the given result while nothing is computed)
Engine(op, r, controls, params, out) ==
  [op |-> op, r |-> r, controls |-> controls, params |-> params, out |-> out,
   raised |-> ""]

InitEngine ==
  /\ db = InitDb(FALSE, "c1")
  /\ cache = [e \in EventIds |-> NoCache]
  /\ procs = [p \in Procs |-> Idle]
  /\ \E r \in EngineResults, controls \in SeqsUpTo(Codes, MaxControls),
        otype \in {"standard", "net"} :
       last = Engine("given", r, controls, [otype |-> otype], r)

\* result.compute_result(controls, class_params): the given result is
\* computed, and a computed result is computed again
Compute ==
  /\ last.op \in {"given", "compute_result"}
  /\ last' = Engine("compute_result", last.out, last.controls, last.params,
                    compute_result(last.out, last.controls, last.params, NoTime))
  /\ UNCHANGED <<db, cache, procs>>

NextEngine == Compute

SpecEngine == InitEngine /\ [][NextEngine]_vars

(***************************************************************************)
(* build_series_result: the events of the series and the points of the     *)
(* competitors of one class.  Points are integers in units of              *)
(* 10^-decimal_places.                                                     *)
(***************************************************************************)
NoPoints == -1

\* create_event_list: the events with a series, by date and then by series
create_event_list(events) ==
  LET e_list == SelectSeq(events, LAMBDA e : e.series # NoId)
      before(a, b) == a.date < b.date \/ (a.date = b.date /\ a.series <= b.series)
  IN CHOOSE sorted \in [1..Len(e_list) -> Range(e_list)] :
       /\ \A i, j \in 1..Len(e_list) : i # j => sorted[i] # sorted[j]
       /\ \A i, j \in 1..Len(e_list) : i < j => before(sorted[i], sorted[j])

RECURSIVE Power(_, _)
Power(x, k) == IF k = 0 THEN 1 ELSE x * Power(x, k - 1)

\* a / b rounded to the nearest integer
Rounded(a, b) == (2 * a + b) \div (2 * b)

Exponent(settings) == IF settings.mode = "Proportional 2" THEN 2 ELSE 1

\* the best time of the class in an event: that of its fastest OK runner
Fastest(runs, event) ==
  LET times == {runs[event.id][c].time : c \in {x \in DOMAIN runs[event.id] :
                                                  runs[event.id][x].status = "OK"}}
  IN CHOOSE t \in times : \A u \in times : t <= u

\* variant: the points are in proportion to the time
ProportionalToTime(settings, fastest, time) ==
  Rounded(settings.maximum_points * Power(10, settings.decimal_places)
            * Power(time, Exponent(settings)),
          Power(fastest, Exponent(settings)))

\* maximum_points * (fastest_time / runner_time) ^ k, rounded to decimal_places
Proportional(settings, fastest, time) ==
  Rounded(settings.maximum_points * Power(10, settings.decimal_places)
            * Power(fastest, Exponent(settings)),
          Power(time, Exponent(settings)))

\* the points a runner has run for in an event: those of an OK result
RunPoints(settings, runs, event, c) ==
  IF runs[event.id][c].status = "OK"
  THEN Proportional(settings, Fastest(runs, event), runs[event.id][c].time)
  ELSE NoPoints

RECURSIVE SumBest(_, _, _)
\* the sum of the n best of the points a function gives the indices in idx
SumBest(points, idx, n) ==
  IF n = 0 \/ idx = {} THEN 0
  ELSE LET best == CHOOSE i \in idx : \A j \in idx : points[i] >= points[j]
       IN points[best] + SumBest(points, idx \ {best}, n - 1)

\* an organizer of an event gets the average of the best results they have
\* run for in the series
OrganizerPoints(settings, run_points) ==
  LET run == {i \in DOMAIN run_points : run_points[i] # NoPoints}
      n == IF Cardinality(run) < settings.nr_of_best_results
           THEN Cardinality(run) ELSE settings.nr_of_best_results
  IN IF n = 0 THEN 0 ELSE Rounded(SumBest(run_points, run, n), n)

\* build_total_results for one class: per runner the points of every event
\* of the list and the total, the sum of the nr_of_best_results best of them
build_total_results(settings, events, runs) ==
  [c \in DOMAIN runs[events[1].id] |->
     LET run_points == [i \in 1..Len(events) |-> RunPoints(settings, runs, events[i], c)]
         races == [i \in 1..Len(events) |->
                     IF runs[events[i].id][c].status = "Organizer"
                     THEN OrganizerPoints(settings, run_points)
                     ELSE run_points[i]]
         scored == {i \in 1..Len(events) : races[i] # NoPoints}
     IN [races |-> races,
         total_points |-> SumBest(races, scored, settings.nr_of_best_results)]]

\* the series of the model: MaxRaces events of a series, stored in the
\* opposite order, and an event without series; runners 1 and 2 of one class
SeriesEvents ==
  [i \in 1..(MaxRaces + 1) |->
     [id |-> i, series |-> IF i > MaxRaces THEN NoId ELSE MaxRaces + 1 - i, date |-> 1]]

Runners == {1, 2}

\* what a runner has in an event: no entry, a time with status OK, a
\* mispunch, or an entry in the class Organizer
Runs ==
  {[status |-> "absent", time |-> NoTime], [status |-> "MISSING_PUNCH", time |-> 3],
   [status |-> "Organizer", time |-> NoTime]}
  \cup {[status |-> "OK", time |-> t] : t \in {2, 3, 5}}

\* in the event without series both runners have status OK
OutOfSeries == [c \in Runners |-> [status |-> "OK", time |-> 2]]

SeriesSettings ==
  {[nr_of_best_results |-> n, mode |-> m, maximum_points |-> 10, decimal_places |-> d] :
     n \in 1..MaxRaces, m \in {"Proportional 1", "Proportional 2"}, d \in {0, 1}}

Series(op, settings, runs, events, out) ==
  [op |-> op, settings |-> settings, runs |-> runs, events |-> events, out |-> out,
   raised |-> ""]

InitSeries ==
  /\ db = InitDb(FALSE, "c1")
  /\ cache = [e \in EventIds |-> NoCache]
  /\ procs = [p \in Procs |-> Idle]
  /\ \E settings \in SeriesSettings, runs \in [1..MaxRaces -> [Runners -> Runs]] :
       last = Series("given", settings, Append(runs, OutOfSeries), <<>>, <<>>)

build_series_result ==
  /\ last.op = "given"
  /\ LET events == create_event_list(SeriesEvents)
     IN last' = Series("build_series_result", last.settings, last.runs, events,
                       build_total_results(last.settings, events, last.runs))
  /\ UNCHANGED <<db, cache, procs>>

NextSeries == build_series_result

SpecSeries == InitSeries /\ [][NextSeries]_vars

(***************************************************************************)
(* Schema migrations: update_015.update and update_016.update.  Here db is *)
(* the database file as committed, last.work is what the connection sees   *)
(* inside its transaction, last.pc the statement that is next.             *)
(***************************************************************************)
VERSION_015 == 15
VERSION_016 == 16

NoTable == [exists |-> FALSE, rows |-> {}, foreign_keys |-> FALSE]
Table(rows, foreign_keys) == [exists |-> TRUE, rows |-> rows, foreign_keys |-> foreign_keys]

\* the file: the tables clubs and entries (for the six tables), the tables
\* built beside them, the index, the column events.light, the version cell,
\* and whether the file is damaged
Database(version, clubs, entries, damaged) ==
  [version |-> version,
   clubs |-> Table(clubs, version >= VERSION_015),
   entries |-> Table(entries, version >= VERSION_015),
   clubs_x |-> NoTable, entries_x |-> NoTable,
   entries_idx1 |-> version >= VERSION_015,
   light |-> version >= VERSION_016,
   damaged |-> damaged, vacuumed |-> FALSE]

ClubRows == {1}
EntryRows == {[id |-> 1, club_id |-> 1], [id |-> 2, club_id |-> 2]}

\* PRAGMA integrity_check gives "ok"
integrity_check(d) == ~d.damaged

\* PRAGMA foreign_key_check gives no row
foreign_key_check(d) ==
  d.entries.foreign_keys => \A e \in d.entries.rows : e.club_id \in d.clubs.rows

Migration(op, pc, pre, work, passed, writes, raised) ==
  [op |-> op, pc |-> pc, pre |-> pre, work |-> work, passed |-> passed,
   writes |-> writes, raised |-> raised]

\* a file of version 14 (no foreign keys yet, so an entry may name a club
\* that is gone) or of version 15
InitMigration ==
  /\ cache = [e \in EventIds |-> NoCache]
  /\ procs = [p \in Procs |-> Idle]
  /\ \E version \in {VERSION_015 - 1, VERSION_015}, clubs \in SUBSET ClubRows,
        entries \in SUBSET EntryRows, damaged \in BOOLEAN :
       /\ foreign_key_check(Database(version, clubs, entries, damaged))
       /\ db = Database(version, clubs, entries, damaged)
       /\ last = Migration("init", "idle", db, db, {}, <<>>, "")

\* update(db) is called for the version the file has
Update ==
  /\ last.pc \in {"idle", "returned"}
  /\ db.version \in {VERSION_015 - 1, VERSION_016 - 1}
  /\ last' = Migration(IF db.version = VERSION_015 - 1 THEN "update_015" ELSE "update_016",
                       "begin", db, db, {}, <<>>, "")
  /\ UNCHANGED <<db, cache, procs>>

\* one statement of the migration: from pc to next, with the connection's
\* view changed to work and the write noted
Statement(op, pc, next, work, write) ==
  /\ last.op = op /\ last.pc = pc
  /\ last' = [last EXCEPT !.pc = next, !.work = work,
                          !.writes = IF write = "" THEN @ ELSE Append(@, write)]
  /\ UNCHANGED <<db, cache, procs>>

\* c.execute("BEGIN EXCLUSIVE TRANSACTION")
Begin015 == Statement("update_015", "begin", "create", last.work, "")

\* CREATE TABLE clubs_x ..., entries_x ... with foreign keys
CreateTables ==
  Statement("update_015", "create", "insert",
            [last.work EXCEPT !.clubs_x = Table({}, TRUE), !.entries_x = Table({}, TRUE)],
            "create")

\* INSERT INTO clubs_x SELECT * FROM clubs ...
CopyRows ==
  Statement("update_015", "insert", "drop",
            [last.work EXCEPT !.clubs_x.rows = last.work.clubs.rows,
                              !.entries_x.rows = last.work.entries.rows],
            "insert")

\* DROP TABLE entries ... clubs
DropTables ==
  Statement("update_015", "drop", "rename",
            [last.work EXCEPT !.clubs = NoTable, !.entries = NoTable], "drop")

\* ALTER TABLE clubs_x RENAME TO clubs ...
RenameTables ==
  Statement("update_015", "rename", "index",
            [last.work EXCEPT !.clubs = last.work.clubs_x, !.entries = last.work.entries_x,
                              !.clubs_x = NoTable, !.entries_x = NoTable],
            "rename")

\* CREATE INDEX entries_idx1
CreateIndex ==
  Statement("update_015", "index", "integrity_check",
            [last.work EXCEPT !.entries_idx1 = TRUE], "index")

\* PRAGMA integrity_check; assert list(value) == ["ok"]
IntegrityCheck ==
  /\ last.op = "update_015" /\ last.pc = "integrity_check"
  /\ IF integrity_check(last.work)
     THEN last' = [last EXCEPT !.pc = "foreign_key_check",
                               !.passed = @ \cup {"integrity_check"}]
     ELSE last' = [last EXCEPT !.pc = "except", !.raised = "AssertionError"]
  /\ UNCHANGED <<db, cache, procs>>

\* PRAGMA foreign_key_check; assert value is None
ForeignKeyCheck ==
  /\ last.op = "update_015" /\ last.pc = "foreign_key_check"
  /\ IF foreign_key_check(last.work)
     THEN last' = [last EXCEPT !.pc = "version",
                               !.passed = @ \cup {"foreign_key_check"}]
     ELSE last' = [last EXCEPT !.pc = "except", !.raised = "AssertionError"]
  /\ UNCHANGED <<db, cache, procs>>

\* UPDATE version SET value=VERSION
WriteVersion015 ==
  Statement("update_015", "version", "commit",
            [last.work EXCEPT !.version = VERSION_015], "version")

\* db.commit(): the file is what the connection sees
Commit015 ==
  /\ last.op = "update_015" /\ last.pc = "commit"
  /\ db' = last.work
  /\ last' = [last EXCEPT !.pc = "vacuum"]
  /\ UNCHANGED <<cache, procs>>

\* c.execute("VACUUM"); db.commit(): outside a transaction, the file is
\* rebuilt at once
Vacuum ==
  /\ last.op = "update_015" /\ last.pc = "vacuum"
  /\ db' = [db EXCEPT !.vacuumed = TRUE]
  /\ last' = [last EXCEPT !.pc = "returned", !.work = db']
  /\ UNCHANGED <<cache, procs>>

\* c.execute("BEGIN EXCLUSIVE TRANSACTION")
Begin016 == Statement("update_016", "begin", "alter", last.work, "")

\* ALTER TABLE events ADD COLUMN light INTEGER DEFAULT 0
AddColumn ==
  Statement("update_016", "alter", "version", [last.work EXCEPT !.light = TRUE], "alter")

\* UPDATE version SET value=VERSION
WriteVersion016 ==
  Statement("update_016", "version", "commit",
            [last.work EXCEPT !.version = VERSION_016], "version")

\* db.commit()
Commit016 ==
  /\ last.op = "update_016" /\ last.pc = "commit"
  /\ db' = last.work
  /\ last' = [last EXCEPT !.pc = "returned"]
  /\ UNCHANGED <<cache, procs>>

\* the statements that sqlite3 may refuse (the file is locked, the disk is
\* full, the statement fails)
Statements ==
  {"begin", "create", "insert", "drop", "rename", "index", "integrity_check",
   "foreign_key_check", "alter", "version", "commit", "vacuum"}

\* a statement raises
StatementFails ==
  /\ last.pc \in Statements
  /\ last' = [last EXCEPT !.pc = "except", !.raised = "sqlite3.Error"]
  /\ UNCHANGED <<db, cache, procs>>

\* except: db.rollback(); raise -- the connection sees the file as it was
\* committed last
Except ==
  /\ last.pc = "except"
  /\ last' = [last EXCEPT !.pc = "raised", !.work = db]
  /\ UNCHANGED <<db, cache, procs>>

NextMigration ==
  \/ Update \/ Begin015 \/ CreateTables \/ CopyRows \/ DropTables \/ RenameTables
  \/ CreateIndex \/ IntegrityCheck \/ ForeignKeyCheck \/ WriteVersion015 \/ Commit015
  \/ Vacuum \/ Begin016 \/ AddColumn \/ WriteVersion016 \/ Commit016
  \/ StatementFails \/ Except

SpecMigration == InitMigration /\ [][NextMigration]_vars

Spec == Init /\ [][Next]_vars

(***************************************************************************)
(* What the properties speak about: the last call, the store before it     *)
(* (last.pre) and after it (db).                                           *)
(***************************************************************************)
\* the last call was a cardRead of store_cardreader_result that returned
CardReadReturned ==
  /\ last.op = "store_cardreader_result"
  /\ last.raised = ""
  /\ last.item.entry_type = "cardRead"

TheEvent == EventsOfKey(last.pre, last.event_key)[1]
LightCall == CardReadReturned /\ TheEvent.light
StandardCall == CardReadReturned /\ ~TheEvent.light

TheChip == last.item.control_card
Incoming == last.item.result

\* the entries of the event before and after the call, as sets
EntriesBefore == Range(get_entries(last.pre, TheEvent.id))
EntriesAfter == Range(get_entries(db, TheEvent.id))
Added == {e \in EntriesAfter : \A x \in EntriesBefore : x.id # e.id}
Removed == {e \in EntriesBefore : \A x \in EntriesAfter : x.id # e.id}
Kept == {e \in EntriesBefore : e \in EntriesAfter}

ChipBefore == {e \in EntriesBefore : e.chip = TheChip}
AssignedBefore == {e \in ChipBefore : e.class_id # NoId}
UnassignedBefore == {e \in ChipBefore : e.class_id = NoId}
CompetitorsOfChip == {c \in Range(last.pre.competitors) : c.chip = TheChip}

\* the classes of the event whose course the incoming result completes
OkClasses ==
  {c \in Range(last.pre.classes) :
     /\ c.event_id = TheEvent.id
     /\ c.course_id # NoId
     /\ \E k \in Range(last.pre.courses) :
          /\ k.id = c.course_id
          /\ compute_result(Incoming, k.controls, c.params, NoTime).status = "OK"}

\* C1: when store_cardreader_result raises, whatever raised (no event for
\* the key, compute_result, a write of the store, the delete of the merged
\* unassigned entry after the assigned entry was updated), the events,
\* classes, courses, competitors and entries are those before the call.
C1_IngestionAtomic ==
  (last.op = "store_cardreader_result" /\ last.raised # "") => db = last.pre

\* the delete of the merged unassigned entry failed, after the update
C1_Witness ==
  /\ last.op = "store_cardreader_result"
  /\ last.raised = "delete_entry"
  /\ db = last.pre

\* C2: in a light event a cardRead whose chip is the chip of an entry of the
\* event, of whatever kind, is answered second_reading and changes nothing.
C2_SecondReading ==
  (LightCall /\ ChipBefore # {}) =>
     /\ last.res.light_status = "second_reading"
     /\ db = last.pre

\* a second reading where the entry is a registered one without punches
C2_Witness ==
  /\ LightCall
  /\ \E e \in ChipBefore : e.class_id # NoId /\ ~has_punches(e.result)
  /\ last.res.light_status = "second_reading"

C4_NoUniqueCourse ==
  (LightCall /\ ChipBefore = {} /\ CompetitorsOfChip # {} /\ Cardinality(OkClasses) # 1) =>
     /\ Removed = {} /\ Kept = EntriesBefore
     /\ Cardinality(Added) = 1
     /\ \A e \in Added :
          e.competitor_id = NoId /\ e.class_id = NoId /\ e.chip = TheChip
     /\ last.res.light_status = "unassigned"
     /\ last.res.error = "No unique matching course"

\* the card completes the courses of two classes
C4_Witness ==
  /\ LightCall /\ ChipBefore = {} /\ CompetitorsOfChip # {}
  /\ Cardinality(OkClasses) >= 2
  /\ last.res.light_status = "unassigned"

\* C5: in a light event, a cardRead of a chip without entry and without
\* competitor adds exactly one entry, unassigned, with the chip, creates no
\* competitor and is answered unassigned with the error "Control card unknown".
C5_UnknownChip ==
  (LightCall /\ ChipBefore = {} /\ CompetitorsOfChip = {}) =>
     /\ Removed = {} /\ Kept = EntriesBefore
     /\ Cardinality(Added) = 1
     /\ \A e \in Added :
          e.competitor_id = NoId /\ e.class_id = NoId /\ e.chip = TheChip
     /\ db.competitors = last.pre.competitors
     /\ last.res.light_status = "unassigned"
     /\ last.res.error = "Control card unknown"

\* the unknown chip's card completes a course all the same
C5_Witness ==
  /\ LightCall /\ ChipBefore = {} /\ CompetitorsOfChip = {}
  /\ OkClasses # {}
  /\ last.res.error = "Control card unknown"

(***************************************************************************)
(* Standard mode                                                           *)
(***************************************************************************)
\* the assigned entries of the chip that already store the incoming SI punches
DupBefore == {e \in AssignedBefore : same_si_punches(e.result, Incoming)}

\* the condition of the merge, on the store before the call
MergeCondition ==
  /\ Cardinality(AssignedBefore) = 1
  /\ \A a \in AssignedBefore : ~has_punches(a.result)
  /\ \/ UnassignedBefore = {}
     \/ /\ Cardinality(UnassignedBefore) = 1
        /\ \A u \in UnassignedBefore : same_si_punches(u.result, Incoming)

\* the assigned entries of the event whose stored result the call changed
Modified ==
  {e \in EntriesBefore :
     /\ e.class_id # NoId
     /\ ~\E x \in EntriesAfter : x.id = e.id /\ x.result = e.result}

\* the incoming result computed for an assigned entry: against the course of
\* its class with the entry's scheduled start, against no controls when the
\* class has no course
ExpectedResult(a) ==
  LET cls == {c \in Range(last.pre.classes) : c.id = a.class_id}
      crs == {k \in Range(last.pre.courses) : \E c \in cls : c.course_id = k.id}
  IN IF crs = {}
     THEN compute_result(Incoming, <<>>, DefaultParams, a.start.start_time)
     ELSE LET c == CHOOSE c \in cls : TRUE
              k == CHOOSE k \in crs : TRUE
          IN compute_result(Incoming, k.controls, c.params, a.start.start_time)

\* C6: in a standard event a cardRead whose SI punches are those stored by an
\* assigned entry of the chip changes nothing in the store, and the response
\* carries such an entry's name, class, stored status and stored time, and
\* no error.
C6_DuplicateAssigned ==
  (StandardCall /\ DupBefore # {}) =>
     /\ db = last.pre
     /\ last.res.error = NoneS
     /\ \E e \in DupBefore :
          /\ last.res.firstName = first_name(last.pre, e)
          /\ last.res.lastName = last_name(last.pre, e)
          /\ last.res.class = class_name(last.pre, e)
          /\ last.res.status = e.result.status
          /\ last.res.time = e.result.time

\* the card is read again after it was merged: the stored status differs
\* from the status the card carries
C6_Witness ==
  /\ StandardCall
  /\ \E e \in DupBefore : has_punches(e.result) /\ e.result.status # Incoming.status
  /\ last.res.error = NoneS

\* C7: in a standard event a cardRead that is no duplicate of an assigned
\* entry changes the result of an assigned entry exactly when one assigned
\* entry has the chip, that entry has no punches, and the unassigned entries
\* of the chip are none or one with the incoming SI punches; the entry changed
\* is that one.
C7_MergeIff ==
  (StandardCall /\ DupBefore = {}) =>
     /\ (Modified # {}) <=> MergeCondition
     /\ Modified \subseteq AssignedBefore

\* the sole assigned entry already has punches, of another read-out
C7_Witness ==
  /\ StandardCall /\ DupBefore = {}
  /\ Cardinality(AssignedBefore) = 1
  /\ \E a \in AssignedBefore : has_punches(a.result)
  /\ Modified = {}

\* C8: after a merge the sole assigned entry stores the incoming result
\* computed against the course of its class with its scheduled start; when an
\* unassigned entry of the chip with the same SI punches existed it is gone
\* and the event has one entry fewer, otherwise the number of entries is
\* unchanged.
C8_MergeResult ==
  (StandardCall /\ DupBefore = {} /\ MergeCondition) =>
     /\ \A a \in AssignedBefore :
          \E x \in EntriesAfter : x.id = a.id /\ x.result = ExpectedResult(a)
     /\ Added = {}
     /\ IF UnassignedBefore # {}
        THEN /\ Removed = UnassignedBefore
             /\ Cardinality(EntriesAfter) = Cardinality(EntriesBefore) - 1
        ELSE /\ Removed = {}
             /\ Cardinality(EntriesAfter) = Cardinality(EntriesBefore)

\* a merge that removed the unassigned entry, into an entry with a scheduled start
C8_Witness ==
  /\ StandardCall /\ DupBefore = {} /\ MergeCondition
  /\ UnassignedBefore # {}
  /\ \E a \in AssignedBefore : a.start.start_time # NoTime
  /\ Cardinality(EntriesAfter) = Cardinality(EntriesBefore) - 1

\* the unassigned entries of the chip that already store the incoming SI punches
ReadOutBefore == {u \in UnassignedBefore : same_si_punches(u.result, Incoming)}

\* C9: in the unassigned branch of a standard event an unassigned entry is
\* inserted exactly when no unassigned entry of the chip stores the incoming
\* SI punches; and no event ever holds two unassigned entries with the same
\* chip and the same SI punches.
C9_NoTwinUnassigned ==
  /\ (StandardCall /\ DupBefore = {} /\ ~MergeCondition) =>
        /\ (Added # {}) <=> (ReadOutBefore = {})
        /\ Cardinality(Added) <= 1
        /\ \A e \in Added : e.class_id = NoId /\ e.competitor_id = NoId /\ e.chip = TheChip
  /\ \A i, j \in 1..Len(db.entries) :
        (/\ i # j
         /\ db.entries[i].event_id = db.entries[j].event_id
         /\ db.entries[i].class_id = NoId /\ db.entries[j].class_id = NoId
         /\ db.entries[i].chip = db.entries[j].chip)
        => ~same_si_punches(db.entries[i].result, db.entries[j].result)

\* the same card read again while its read-out is still unassigned, next to
\* an unassigned read-out of another card with the chip
C9_Witness ==
  /\ StandardCall /\ DupBefore = {} /\ ~MergeCondition
  /\ ReadOutBefore # {}
  /\ Cardinality(UnassignedBefore) >= 2
  /\ Added = {}

\* C10: in a standard event the error of the response is null after a
\* duplicate and after a merge, and in the unassigned branch it is chosen by
\* the number of assigned entries of the chip alone.
C10_ErrorByCardinality ==
  StandardCall =>
     IF DupBefore # {} \/ MergeCondition
     THEN last.res.error = NoneS
     ELSE last.res.error =
            (IF Cardinality(AssignedBefore) = 0 THEN "Control card unknown"
             ELSE IF Cardinality(AssignedBefore) >= 2
                  THEN "There are several entries for this card"
                  ELSE "There are other results for this card")

\* two assigned entries have the chip
C10_Witness ==
  /\ StandardCall /\ DupBefore = {} /\ ~MergeCondition
  /\ Cardinality(AssignedBefore) = 2
  /\ last.res.error = "There are several entries for this card"

(***************************************************************************)
(* Event lookup, assign_name_to_light_entry, entries per competitor        *)
(***************************************************************************)
KeyedOps ==
  {"store_cardreader_result", "assign_name_to_light_entry", "import_iof_result_list"}

\* the events of the store before the call that have the key of the call
EventsWithKey == {e \in Range(last.pre.events) : e.key = last.event_key}

\* C11: the three entry points called with the empty key, or with a key no
\* event has, raise EventNotFoundError and leave the store as it was, also
\* when an event has the empty key or no key; a call that gets past the
\* lookup had a non-empty key that an event has.
C11_EventNotFound ==
  (last.op \in KeyedOps) =>
     /\ (last.event_key = "" \/ EventsWithKey = {}) =>
           (last.raised = "EventNotFoundError" /\ db = last.pre)
     /\ (last.raised # "EventNotFoundError") =>
           (last.event_key # "" /\ EventsWithKey # {})

\* the empty key is given while an event has the empty key and another has none
C11_Witness ==
  /\ last.op = "import_iof_result_list"
  /\ last.event_key = ""
  /\ \E e \in Range(last.pre.events) : e.key = ""
  /\ \E e \in Range(last.pre.events) : e.key = NoneS
  /\ last.raised = "EventNotFoundError"

AssignCall == last.op = "assign_name_to_light_entry" /\ last.raised = ""
AssignEvent == CHOOSE e \in EventsWithKey : TRUE
AssignBefore == {e \in Range(last.pre.entries) : e.event_id = AssignEvent.id}
AssignAfter == {e \in Range(db.entries) : e.event_id = AssignEvent.id}
AssignChipBefore == {e \in AssignBefore : e.chip = last.args.chip}
AssignChipAfter == {e \in AssignAfter : e.chip = last.args.chip}
NamedCompetitors ==
  {c \in Range(db.competitors) :
     c.first_name = last.args.first_name /\ c.last_name = last.args.last_name}

\* the classes of the event whose course a result completes
OkClassesFor(r) ==
  {c \in Range(last.pre.classes) :
     /\ c.event_id = AssignEvent.id
     /\ c.course_id # NoId
     /\ \E k \in Range(last.pre.courses) :
          /\ k.id = c.course_id
          /\ compute_result(r, k.controls, c.params, NoTime).status = "OK"}

\* C12: assign_name_to_light_entry, when it returns, has removed every entry
\* of the event with the chip and left exactly one entry with the chip, which
\* is new: for the result of one of the removed entries, an entry of the named
\* competitor in the class whose course alone the result completes (answered
\* ok_registered), or else an unassigned entry (answered unassigned, "No
\* unique matching course"); when it raises, nothing of this is in the store.
C12_AssignName ==
  /\ AssignCall =>
       /\ AssignChipBefore # {}
       /\ AssignAfter \ AssignChipAfter = AssignBefore \ AssignChipBefore
       /\ Cardinality(AssignChipAfter) = 1
       /\ \A n \in AssignChipAfter :
            /\ n \notin AssignChipBefore
            /\ \E old \in AssignChipBefore :
                 IF Cardinality(OkClassesFor(old.result)) = 1
                 THEN /\ n.competitor_id \in {c.id : c \in NamedCompetitors}
                      /\ n.class_id \in {c.id : c \in OkClassesFor(old.result)}
                      /\ n.result.status = "OK"
                      /\ last.res.light_status = "ok_registered"
                      /\ last.res.error = NoneS
                 ELSE /\ n.competitor_id = NoId /\ n.class_id = NoId
                      /\ last.res.light_status = "unassigned"
                      /\ last.res.error = "No unique matching course"
  /\ (last.op = "assign_name_to_light_entry" /\ last.raised # "") => db = last.pre

\* an unassigned read-out is given a name and becomes an entry of a class
C12_Witness ==
  /\ AssignCall
  /\ \E old \in AssignChipBefore : old.competitor_id = NoId
  /\ last.res.light_status = "ok_registered"

NamedBefore ==
  {c \in Range(last.pre.competitors) :
     c.first_name = last.args.first_name /\ c.last_name = last.args.last_name}

\* C13: assign_name_to_light_entry changes of a competitor with the given name
\* the chip alone, to the given chip; when there is none it adds one
\* competitor, with the name and the chip, no gender, no year and no club;
\* every other competitor stays as it was.
C13_FindOrCreate ==
  AssignCall =>
     IF NamedBefore # {}
     THEN /\ Len(db.competitors) = Len(last.pre.competitors)
          /\ \A i \in 1..Len(db.competitors) :
               IF last.pre.competitors[i] \in NamedBefore
               THEN db.competitors[i] =
                      [last.pre.competitors[i] EXCEPT !.chip = last.args.chip]
               ELSE db.competitors[i] = last.pre.competitors[i]
     ELSE /\ Len(db.competitors) = Len(last.pre.competitors) + 1
          /\ \A i \in 1..Len(last.pre.competitors) :
               db.competitors[i] = last.pre.competitors[i]
          /\ LET c == db.competitors[Len(db.competitors)]
             IN /\ c.first_name = last.args.first_name
                /\ c.last_name = last.args.last_name
                /\ c.chip = last.args.chip
                /\ c.gender = "" /\ c.year = NoId /\ c.club_id = NoId
                /\ \A i \in 1..Len(last.pre.competitors) :
                     last.pre.competitors[i].id # c.id

\* the name is that of a competitor who had another chip
C13_Witness ==
  /\ AssignCall
  /\ \E c \in NamedBefore : c.chip # last.args.chip
  /\ \A c \in NamedCompetitors : c.chip = last.args.chip

\* C14: no event holds two entries of the same competitor.
C14_OneEntryPerCompetitor ==
  \A i, j \in 1..Len(db.entries) :
     (/\ i # j
      /\ db.entries[i].event_id = db.entries[j].event_id
      /\ db.entries[i].competitor_id # NoId)
     => db.entries[i].competitor_id # db.entries[j].competitor_id

\* the call that ended last returned and changed the entries of event e
Mutated(e) ==
  /\ last.op \in {"store_cardreader_result", "assign_name_to_light_entry",
                  "add_or_update_entry", "import_iof_result_list"}
  /\ last.raised = ""
  /\ get_entries(last.pre, e) # get_entries(db, e)

\* C15: after a committed mutation of an event's entries, and before the next
\* read, the result cache holds no entry for that event.
C15_CacheInvalidated ==
  \A e \in EventIds : Mutated(e) => cache[e] = NoCache

\* C16: no call clears the cache while its transaction is still open.
C16_ClearAfterCommit ==
  \A p \in Procs : procs[p].pc = "open" => ~procs[p].cleared

\* the processes whose block has been left
Closed == {p \in Procs : procs[p].pc \in {"closed", "done"}}

\* the ends of process p's call on store d that give the response p got
SameEnd(d, p) ==
  {o \in Handler(d, procs[p].call) :
     o.res = procs[p].out.res /\ o.raised = procs[p].out.raised}

\* the stores in which the calls of order[k..], run one after the other from
\* store d, end with the responses the processes got
RECURSIVE SerialRun(_, _, _)
SerialRun(d, order, k) ==
  IF k > Len(order) THEN {d}
  ELSE UNION {SerialRun(Transaction(d, o), order, k + 1) : o \in SameEnd(d, order[k])}

Orders(S) ==
  {order \in UNION {[1..n -> S] : n \in {Cardinality(S)}} :
     \A i, j \in 1..Cardinality(S) : i # j => order[i] # order[j]}

\* the number of responses of the closed card reads with this status
CardResponses(status) ==
  Cardinality({p \in Closed : /\ procs[p].call.op = "store_cardreader_result"
                              /\ procs[p].out.raised = ""
                              /\ procs[p].out.res.light_status = status})

EditCall ==
  /\ last.op = "add_or_update_entry"
  /\ last.raised = ""
  /\ last.args.id # NoId

\* the last call was add_or_update_entry, and it returned
EntryCall == last.op = "add_or_update_entry" /\ last.raised = ""

\* the entry the call was about: the one with the given id, or the added one
Target == get_entry(db, IF last.args.id # NoId THEN last.args.id ELSE last.pre.seq + 1)

EditedBefore == get_entry(last.pre, last.args.id)
EditedAfter == get_entry(db, last.args.id)
EditedCourse == ClassCourse(db, last.args.class_id)

\* the punches of a result: its rows that hold a punch
Punches(r) == SelectSeq(r.split_times, LAMBDA sp : sp.punch_time # NoTime \/ sp.si_punch_time # NoTime)
PunchData(r) ==
  [i \in 1..Len(Punches(r)) |->
     <<Punches(r)[i].control_code, Punches(r)[i].punch_time, Punches(r)[i].si_punch_time>>]

\* the punched and the SI start and finish times of a result
StartFinish(r) ==
  <<r.punched_start_time, r.punched_finish_time,
    r.si_punched_start_time, r.si_punched_finish_time>>

\* one MISSING row per control, and no other row
MissingRows(r, controls) ==
  /\ Len(r.split_times) = Len(controls)
  /\ \A i \in 1..Len(controls) :
       /\ r.split_times[i].control_code = controls[i]
       /\ r.split_times[i].status = "MISSING"
       /\ r.split_times[i].punch_time = NoTime
       /\ r.split_times[i].si_punch_time = NoTime

\* C18: with result_id the id of another entry, that entry is deleted and its
\* chip and its result (punches, start and finish times), recomputed against
\* the course of the target's class, are on the target entry.
C18_TransferResult ==
  (/\ EntryCall
   /\ last.args.result_id \notin {NoResult, RemoveResult}
   /\ has_entry(last.pre, last.args.result_id))
  => /\ ~has_entry(db, last.args.result_id)
     /\ LET source == get_entry(last.pre, last.args.result_id)
        IN /\ Target.chip = source.chip
           /\ PunchData(Target.result) = PunchData(source.result)
           /\ StartFinish(Target.result) = StartFinish(source.result)
           /\ Target.result =
                compute_result([source.result EXCEPT !.status = last.args.status],
                               EditedCourse.controls, EditedCourse.class_params,
                               last.args.start_time)

C18_Witness ==
  /\ EditCall
  /\ last.args.result_id \notin {NoResult, RemoveResult}
  /\ has_entry(last.pre, last.args.result_id)
  /\ get_entry(last.pre, last.args.result_id).chip # last.args.chip
  /\ Len(PunchData(Target.result)) > 0
  /\ Target.result.status = "OK"

\* C19: with result_id = -1 the entry's result is empty (no punches, no
\* punched or SI times, one MISSING row per control of the class's course);
\* its status is the submitted one when that is DISQUALIFIED or differs from
\* the status before, and the status of an empty result otherwise.
C19_RemoveResult ==
  (EditCall /\ last.args.result_id = RemoveResult)
  => /\ PunchData(EditedAfter.result) = <<>>
     /\ StartFinish(EditedAfter.result) = <<NoTime, NoTime, NoTime, NoTime>>
     /\ MissingRows(EditedAfter.result, EditedCourse.controls)
     /\ EditedAfter.result.status =
          IF \/ last.args.status = "DISQUALIFIED"
             \/ last.args.status # EditedBefore.result.status
          THEN last.args.status
          ELSE PersonRaceResult("INACTIVE").status

C19_Witness ==
  /\ EditCall
  /\ last.args.result_id = RemoveResult
  /\ Len(PunchData(EditedBefore.result)) > 0
  /\ last.args.status = EditedBefore.result.status
  /\ last.args.status = "OK"

\* C20: with result_id null the punches and the punched and SI start and
\* finish times of the entry's result are those from before the call, and no
\* entry is created or deleted.
C20_KeepResult ==
  (EditCall /\ last.args.result_id = NoResult)
  => /\ PunchData(EditedAfter.result) = PunchData(EditedBefore.result)
     /\ StartFinish(EditedAfter.result) = StartFinish(EditedBefore.result)
     /\ {e.id : e \in Range(db.entries)} = {e.id : e \in Range(last.pre.entries)}

C20_Witness ==
  /\ EditCall
  /\ last.args.result_id = NoResult
  /\ Len(PunchData(EditedBefore.result)) > 0
  /\ EditedAfter.result.status # EditedBefore.result.status

\* the entries the last call added
NewEntries == {e \in Range(db.entries) : ~has_entry(last.pre, e.id)}

\* the result shows a manual edit: a time or a punch that is not the card's
Edited(r) ==
  \/ r.punched_start_time # r.si_punched_start_time
  \/ r.punched_finish_time # r.si_punched_finish_time
  \/ \E i \in 1..Len(r.split_times) :
        /\ r.split_times[i].status # "MISSING"
        /\ r.split_times[i].punch_time # r.split_times[i].si_punch_time

\* the result holds what the card gave, and nothing else
AsRead(r, before) ==
  /\ ~Edited(r)
  /\ r.si_punched_start_time = before.si_punched_start_time
  /\ r.si_punched_finish_time = before.si_punched_finish_time
  /\ [i \in 1..Len(r.split_times) |->
        <<r.split_times[i].control_code, r.split_times[i].si_punch_time>>]
     = [i \in 1..Len(SiPunches(before)) |->
        <<SiPunches(before)[i].control_code, SiPunches(before)[i].si_punch_time>>]
  /\ \A i \in 1..Len(r.split_times) : r.split_times[i].status = "ADDITIONAL"

\* C21: when the result of an entry is removed or replaced and that result,
\* reset to the card's data, has punches, one unassigned entry with the
\* entry's former chip and that reset result is added; otherwise none is.
C21_ReplacedResultKept ==
  (EditCall /\ last.args.result_id # NoResult)
  => IF has_punches(reset(EditedBefore.result))
     THEN \E n \in NewEntries :
            /\ NewEntries = {n}
            /\ n.competitor_id = NoId
            /\ n.event_id = EditedBefore.event_id
            /\ n.chip = EditedBefore.chip
            /\ AsRead(n.result, EditedBefore.result)
            /\ n.result = compute_result(reset(EditedBefore.result), <<>>, DefaultParams, NoTime)
     ELSE NewEntries = {}

C21_Witness ==
  /\ EditCall
  /\ last.args.result_id # NoResult
  /\ Edited(EditedBefore.result)
  /\ has_punches(reset(EditedBefore.result))
  /\ NewEntries # {}

\* a result made by hand only: the reset result has no punches
C21_WitnessNone ==
  /\ EditCall
  /\ last.args.result_id # NoResult
  /\ has_punches(EditedBefore.result)
  /\ ~has_punches(reset(EditedBefore.result))
\* the last call added an entry: add_or_update_entry without id returned
AddCall == EntryCall /\ last.args.id = NoId

\* the entries the competitor of the added entry had in the event before
EarlierEntries ==
  {e \in Range(last.pre.entries) :
     e.event_id = Target.event_id /\ e.competitor_id = Target.competitor_id}

\* C22: add_or_update_entry returns the pair (entry_id,
\* not_competing_promoted); a second entry of a competitor in an event is
\* stored with not_competing = true and leaves the earlier entry unchanged,
\* and not_competing_promoted tells that the submitted false became true
C22_SecondEntryNotCompeting ==
  EntryCall =>
    /\ (AddCall /\ EarlierEntries # {}) =>
         /\ Target.not_competing
         /\ \A e \in EarlierEntries : e \in Range(db.entries)
    /\ DOMAIN last.res = {"id", "not_competing_promoted"}
    /\ last.res.not_competing_promoted =
         (AddCall /\ EarlierEntries # {} /\ ~last.args.not_competing
          /\ Target.not_competing)

\* C23: an entry is never added for a competitor who has an entry in the
\* event: the call raises "Competitor already registered for this event"
C23_AlreadyRegistered == ~(AddCall /\ EarlierEntries # {})


\* the competitor of the entry the call was about, before and after the call
CompetitorBefore == get_competitor(last.pre, Target.competitor_id)
CompetitorAfter == get_competitor(db, Target.competitor_id)

\* C25: add_or_update_entry never overwrites a club or a chip the competitor
\* has: an entry added for an existing competitor leaves the competitor's
\* club and chip as they are when set and fills them from the form when not;
\* an update of an entry leaves both as they are, and the entry stores the
\* submitted club and (when no result is transferred to it) the submitted chip
C25_CompetitorKeepsClubAndChip ==
  (EntryCall /\ has_competitor(last.pre, Target.competitor_id)) =>
    /\ AddCall =>
         /\ CompetitorAfter.club_id =
              IF CompetitorBefore.club_id # NoId THEN CompetitorBefore.club_id
              ELSE last.args.club_id
         /\ CompetitorAfter.chip =
              IF CompetitorBefore.chip # "" THEN CompetitorBefore.chip
              ELSE last.args.chip
    /\ ~AddCall =>
         /\ CompetitorAfter.club_id = CompetitorBefore.club_id
         /\ CompetitorAfter.chip = CompetitorBefore.chip
         /\ Target.club_id = last.args.club_id
         /\ last.args.result_id \in {NoResult, RemoveResult} => Target.chip = last.args.chip

\* an entry was added for a competitor who had a club and a chip, with
\* another club and another chip in the form
C25_Witness ==
  /\ AddCall
  /\ has_competitor(last.pre, Target.competitor_id)
  /\ CompetitorBefore.club_id \notin {NoId, last.args.club_id}
  /\ CompetitorBefore.chip \notin {"", last.args.chip}
  /\ last.args.club_id # NoId

\* an entry was added for a competitor without club and chip
C25_WitnessFilled ==
  /\ AddCall
  /\ has_competitor(last.pre, Target.competitor_id)
  /\ CompetitorBefore.club_id = NoId /\ CompetitorBefore.chip = ""
  /\ CompetitorAfter.club_id # NoId /\ CompetitorAfter.chip # ""

\* an entry was updated with a club and a chip that its competitor has not
C25_WitnessUpdate ==
  /\ EntryCall /\ ~AddCall
  /\ CompetitorBefore.club_id # last.args.club_id
  /\ CompetitorBefore.chip # last.args.chip
  /\ last.args.club_id # NoId

\* the last call was an add_or_update_entry whose except block caught an error
CaughtCall ==
  /\ last.op = "add_or_update_entry"
  /\ last.raised \notin StoreFailures \cup {""}

\* the rows the call referred to that the store did not have
EventGone == ~has_event(last.pre, last.args.event_id)
EntryGone == last.args.id # NoId /\ ~has_entry(last.pre, last.args.id)
CompetitorGone ==
  last.args.competitor_id # NoId /\ ~has_competitor(last.pre, last.args.competitor_id)
ClassGone == ~has_class(last.pre, last.args.class_id)
ClubGone == last.args.club_id # NoId /\ ~has_club(last.pre, last.args.club_id)
ResultGone ==
  last.args.result_id \notin {NoResult, RemoveResult}
  /\ ~has_entry(last.pre, last.args.result_id)

\* the competitor the form is about (picked, or the entry's), and whether
\* the submitted name is that of another competitor
FormAbout ==
  IF last.args.id = NoId THEN last.args.competitor_id
  ELSE get_entry(last.pre, last.args.id).competitor_id

NameOfAnother ==
  /\ FormAbout # NoId
  /\ \E c \in Range(last.pre.competitors) :
       /\ c.id # FormAbout
       /\ c.first_name = last.args.first_name /\ c.last_name = last.args.last_name

\* C24: the error of a failed add_or_update_entry is chosen in a fixed order:
\* event missing, else entry missing, else competitor missing, else class
\* missing, else club missing, else the error that was caught, unchanged
C24_ReprobeOrder ==
  CaughtCall =>
    last.raised =
      IF EventGone THEN "EventNotFoundError"
      ELSE IF EntryGone THEN "Entry deleted"
      ELSE IF CompetitorGone THEN "Competitor deleted"
      ELSE IF ClassGone THEN "Class deleted"
      ELSE IF ClubGone THEN "Club deleted"
      ELSE IF NameOfAnother THEN "Competitor already exist"
      ELSE IF ResultGone THEN "Result deleted"
      ELSE "KeyError"

\* a call failed with the competitor, the class and the club missing
C24_Witness ==
  /\ CaughtCall
  /\ ~EventGone /\ ~EntryGone /\ CompetitorGone /\ ClassGone /\ ClubGone
  /\ last.raised = "Competitor deleted"

\* a call failed with nothing but the result missing
C24_WitnessOriginal ==
  /\ CaughtCall
  /\ ~EventGone /\ ~EntryGone /\ ~CompetitorGone /\ ~ClassGone /\ ~ClubGone
  /\ last.raised = "Result deleted"

\* a call failed on the name of another competitor
C24_WitnessName == CaughtCall /\ last.raised = "Competitor already exist"

\* a call failed with the event and the entry missing
C24_WitnessEvent == CaughtCall /\ EntryGone /\ last.raised = "EventNotFoundError"

\* the engine has computed a result
Computed == last.op = "compute_result"

\* the punches of a result: its rows, without the MISSING rows of an earlier
\* computation
PunchesOf(r) == SelectSeq(r.split_times, LAMBDA sp : sp.status # "MISSING")

\* the controls of the course that no punch of the given result has
NotPunched ==
  SelectSeq(last.controls,
            LAMBDA c : \A i \in 1..Len(PunchesOf(last.r)) :
                         PunchesOf(last.r)[i].control_code # c)

C26_OperatorStatus ==
  (/\ EntryCall
   /\ last.args.status \in {"DID_NOT_START", "DID_NOT_FINISH", "DISQUALIFIED"}
   /\ \/ last.args.result_id # RemoveResult
      \/ last.args.status = "DISQUALIFIED"
      \/ last.args.id = NoId
      \/ last.args.status # EditedBefore.result.status)
    => Target.result.status = last.args.status

C26_OperatorWitness ==
  /\ EntryCall
  /\ last.args.status = "DISQUALIFIED"
  /\ Len(Target.result.split_times) > 0
  /\ Target.result.finish_time # NoTime

\* the rows of the computed result that are punches, and those that are not
PunchesOut == SelectSeq(last.out.split_times, LAMBDA sp : sp.status # "MISSING")
MissingOut == SelectSeq(last.out.split_times, LAMBDA sp : sp.status = "MISSING")

\* how many rows of a sequence of rows have this code
RowsOf(rows, code) == Cardinality({i \in 1..Len(rows) : rows[i].control_code = code})

\* C27: compute_result neither drops nor duplicates a punch: the computed
\* split list holds every given punch once, with its control code and its
\* punch time, and one MISSING row for every control of the course that is
\* not matched (per code, OK rows and MISSING rows together are as many as
\* the course has controls of that code), and nothing else
C27_PunchesConserved ==
  Computed =>
    /\ Len(PunchesOut) = Len(PunchesOf(last.r))
    /\ \A i \in 1..Len(PunchesOut) :
         /\ PunchesOut[i].control_code = PunchesOf(last.r)[i].control_code
         /\ PunchesOut[i].punch_time = PunchesOf(last.r)[i].punch_time
         /\ PunchesOut[i].si_punch_time = PunchesOf(last.r)[i].si_punch_time
         /\ PunchesOut[i].status \in {"OK", "ADDITIONAL"}
    /\ \A i \in 1..Len(MissingOut) :
         MissingOut[i].punch_time = NoTime /\ MissingOut[i].si_punch_time = NoTime
    /\ \A code \in Codes :
         RowsOf(SelectSeq(PunchesOut, LAMBDA sp : sp.status = "OK"), code)
           + RowsOf(MissingOut, code)
         = Cardinality({k \in 1..Len(last.controls) : last.controls[k] = code})
    /\ Len(last.out.split_times) = Len(PunchesOut) + Len(MissingOut)

\* a result with two punches of one control, one of them without time, was
\* computed against a course with a control it has not punched
C27_Witness ==
  /\ Computed
  /\ Len(PunchesOf(last.r)) >= 2
  /\ \E i, j \in 1..Len(PunchesOut) :
       /\ i # j
       /\ PunchesOut[i].control_code = PunchesOut[j].control_code
       /\ PunchesOut[i].status = "OK" /\ PunchesOut[j].status = "ADDITIONAL"
       /\ PunchesOut[j].punch_time = NoTime
  /\ Len(MissingOut) = 1

\* a computed result with a MISSING row was computed again
C27_WitnessAgain ==
  /\ Computed
  /\ Len(PunchesOf(last.r)) < Len(last.r.split_times)
  /\ Len(PunchesOf(last.r)) > 0

\* a net course was computed
ComputedNet == Computed /\ last.params.otype = "net"

\* the punch at row i of the given punches is the n-th of its code
NthOfCode(i) ==
  Cardinality({j \in 1..i : PunchesOf(last.r)[j].control_code
                              = PunchesOf(last.r)[i].control_code})

\* control k of the course is the n-th of its code
NthControl(k) == Cardinality({j \in 1..k : last.controls[j] = last.controls[k]})

\* the controls of the course that the punches do not cover, in course order:
\* a code the course has once is covered by any punch of it
Uncovered ==
  SelectSeq([k \in 1..Len(last.controls) |-> k],
            LAMBDA k : NthControl(k) > RowsOf(PunchesOf(last.r), last.controls[k]))

\* the result was given with a status that is computed, with start and finish
Timed ==
  /\ last.r.status \notin {"DID_NOT_START", "DID_NOT_FINISH", "DISQUALIFIED"}
  /\ last.out.start_time # NoTime /\ last.out.finish_time # NoTime
  /\ last.out.finish_time >= last.out.start_time
  /\ Len(last.controls) > 0

\* the marks of net: the earliest punch of an expected code is OK (the
\* earliest n when the course has the code n times), every other punch is
\* ADDITIONAL; punches stay in their order; the MISSING rows follow all
\* punches, one per uncovered control, in course order
NetMarks ==
  /\ \A i \in 1..Len(PunchesOut) :
       PunchesOut[i].status =
         IF NthOfCode(i) <= Cardinality({k \in 1..Len(last.controls) :
                                           last.controls[k] = PunchesOut[i].control_code})
         THEN "OK" ELSE "ADDITIONAL"
  /\ Len(PunchesOut) = Len(PunchesOf(last.r))
  /\ \A i \in 1..Len(PunchesOut) :
       /\ PunchesOut[i].control_code = PunchesOf(last.r)[i].control_code
       /\ PunchesOut[i].punch_time = PunchesOf(last.r)[i].punch_time
  /\ last.out.split_times = PunchesOut \o MissingOut
  /\ Len(MissingOut) = Len(Uncovered)
  /\ \A j \in 1..Len(MissingOut) :
       MissingOut[j].control_code = last.controls[Uncovered[j]]

C28_WitnessMissing ==
  /\ ComputedNet /\ Timed
  /\ Len(PunchesOut) > 0 /\ Len(MissingOut) > 0
  /\ last.out.status = "MISSING_PUNCH"

\* the series result was built
SeriesBuilt == last.op = "build_series_result"

\* maximum_points in the unit of the points
MaximumPoints == last.settings.maximum_points * Power(10, last.settings.decimal_places)

C29_WitnessOrganizer ==
  /\ SeriesBuilt
  /\ \E c \in Runners, i \in 1..Len(last.events) :
       /\ last.runs[last.events[i].id][c].status = "Organizer"
       /\ last.out[c].races[i] > 0

\* the version a migration sets
TargetVersion == IF last.op = "update_015" THEN VERSION_015 ELSE VERSION_016

\* the file has the tables of the new schema with the rows of the old ones
Migrated ==
  /\ db.version = TargetVersion
  /\ db.clubs.rows = last.pre.clubs.rows /\ db.entries.rows = last.pre.entries.rows
  /\ ~db.clubs_x.exists /\ ~db.entries_x.exists
  /\ last.op = "update_015" =>
       db.clubs.foreign_keys /\ db.entries.foreign_keys /\ db.entries_idx1
  /\ last.op = "update_016" => db.light

\* C30: a migration is all-or-nothing: it returns with the new tables, the
\* rows copied and the version cell set, or it raises and the file is as it
\* was before the migration; the version cell is written after the checks
\* that are made have passed, as the last write before the commit
C30_AllOrNothing ==
  /\ last.pc = "returned" => Migrated
  /\ last.pc = "raised" => db = last.pre
  /\ (last.op \in {"update_015", "update_016"} /\ last.pc = "commit") =>
       /\ last.writes[Len(last.writes)] = "version"
       /\ last.op = "update_015" => last.passed = {"integrity_check", "foreign_key_check"}

\* what does hold: a migration that raises before its commit leaves the file
\* as it was, and one that raises after it leaves the file migrated
C30_RaisedBeforeOrAfterCommit ==
  last.pc = "raised" => (db = last.pre \/ (Migrated /\ ~db.vacuumed))

\* the step is a call of import_iof_result_list for the event
ImportCall == last'.op = "import_iof_result_list" /\ last'.event_key = EventKey

\* the entries of the list as the store holds them after the import
Imported == last'.content.entries

\* the last Len(entries) entries of the event are those of the list
ListStored(before) ==
  LET now == get_entries(db', 1)
      n == Len(Imported)
  IN /\ Len(now) = Len(before) + n
     /\ \A i \in 1..Len(before) : now[i] = before[i]
     /\ \A i \in 1..n : now[Len(before) + i].result = Imported[i].result

\* C31: import_iof_result_list deletes the entries and the classes of the
\* event before importing exactly when the list is not a delta list; a call
\* that raises leaves the store as it was and the cache alone; a call that
\* returns clears the event's cache
C31_ImportReplaces ==
  [][ImportCall =>
       /\ last'.pre = db
       /\ last'.raised # "" => db' = db /\ cache' = cache
       /\ last'.raised = "" =>
            /\ cache' = [cache EXCEPT ![1] = NoCache]
            /\ last'.content.status = "DELTA" =>
                 /\ get_classes(db', 1) = get_classes(db, 1)
                 /\ ListStored(get_entries(db, 1))
            /\ last'.content.status # "DELTA" =>
                 /\ get_classes(db', 1) = <<>>
                 /\ ListStored(<<>>)]_vars

\* a list that is no delta list failed to import on an event with entries:
\* the entries and classes are there again
C31_Witness ==
  /\ last.op = "import_iof_result_list" /\ last.event_key = EventKey
  /\ last.raised # "" /\ last.content.status = "COMPLETE"
  /\ Len(get_entries(last.pre, 1)) > 0 /\ Len(get_classes(last.pre, 1)) > 0
  /\ db = last.pre

\* a complete list replaced the entries and classes of the event
C31_WitnessReplaced ==
  /\ last.op = "import_iof_result_list" /\ last.raised = ""
  /\ last.content.status = "SNAPSHOT" /\ Len(last.content.entries) = 1
  /\ Len(get_entries(last.pre, 1)) > 0
  /\ Len(get_entries(db, 1)) = 1 /\ get_classes(db, 1) = <<>>
  /\ cache[1] = NoCache

\* a delta list was added to the entries of the event
C31_WitnessDelta ==
  /\ last.op = "import_iof_result_list" /\ last.raised = ""
  /\ last.content.status = "DELTA" /\ Len(last.content.entries) = 1
  /\ Len(get_entries(last.pre, 1)) > 0
  /\ Len(get_entries(db, 1)) = Len(get_entries(last.pre, 1)) + 1
  /\ Len(get_classes(db, 1)) > 0

\* the chip's sole assigned entry has punches, and they are not those of
\* the card that was read
PunchedOtherwise ==
  /\ Cardinality(AssignedBefore) = 1
  /\ \A a \in AssignedBefore : has_punches(a.result) /\ ~same_si_punches(a.result, Incoming)

\* C32: in a standard event a cardRead for a chip whose sole assigned entry
\* has punches other than the card's leaves that entry as it was and removes
\* nothing; the read is added as one unassigned entry of the chip unless an
\* unassigned entry of the chip stores the same SI punches already
C32_PunchedEntryKept ==
  (StandardCall /\ PunchedOtherwise) =>
     /\ AssignedBefore \subseteq EntriesAfter
     /\ Removed = {} /\ Kept = EntriesBefore
     /\ IF ReadOutBefore = {}
        THEN \E x \in Added :
               /\ Added = {x}
               /\ x.class_id = NoId /\ x.competitor_id = NoId /\ x.chip = TheChip
               /\ same_si_punches(x.result, Incoming)
        ELSE Added = {}

\* the second, different card of a runner whose entry has punches
C32_Witness ==
  /\ StandardCall /\ PunchedOtherwise
  /\ ReadOutBefore = {} /\ Cardinality(Added) = 1
  /\ \E a \in AssignedBefore : a.competitor_id # NoId /\ a \in EntriesAfter

\* that card is read once more: nothing is added
C32_WitnessAgain ==
  /\ StandardCall /\ PunchedOtherwise
  /\ ReadOutBefore # {} /\ db = last.pre

\* a result computed for a class of the store before the call: against the
\* controls of the course of that class alone; for no class, against no controls
ComputedAlone(r, class_id) ==
  IF class_id = NoId THEN compute_result(r, <<>>, DefaultParams, NoTime)
  ELSE LET c == get_class(last.pre, class_id)
       IN compute_result(r, get_course(last.pre, c.course_id).controls, c.params, NoTime)

\* "2. Recover stored result": the result of the first entry with the chip
StoredBefore ==
  SelectSeq(get_entries(last.pre, AssignEvent.id), LAMBDA e : e.chip = last.args.chip)[1].result

\* C33: in a light event the result a cardRead or a name assignment stores is
\* the incoming (or the recovered) result computed against the course of the
\* class of the new entry alone, and against no controls for an unassigned
\* entry, whatever classes were tried before and in whatever order
C33_IndependentCopies ==
  /\ LightCall => \A x \in Added : x.result = ComputedAlone(Incoming, x.class_id)
  /\ AssignCall => \A x \in AssignChipAfter : x.result = ComputedAlone(StoredBefore, x.class_id)

\* the card completes the course of the first class only, and two more
\* classes with another course were tried after it
C33_Witness ==
  /\ LightCall
  /\ \E x \in Added : x.class_id = 1 /\ x.result.status = "OK"
  /\ \A c \in Range(get_classes(last.pre, 1)) : c.id # 1 => c.course_id = 2

\* the card completes the courses of two classes: stored unassigned
C33_WitnessUnassigned ==
  /\ LightCall /\ CompetitorsOfChip # {}
  /\ Cardinality(OkClasses) = 2
  /\ \E x \in Added : x.class_id = NoId /\ Len(x.result.split_times) = 2

\* a name is given to an unassigned read-out that completes the course of
\* the second class only
C33_WitnessAssign ==
  /\ AssignCall
  /\ \E old \in AssignChipBefore : old.class_id = NoId
  /\ \E x \in AssignChipAfter : x.class_id = 2 /\ x.result.status = "OK"
  /\ get_class(last.pre, 3).course_id \in {1, 2}

\* the entries of the event that have the card's chip and store its SI punches
StoredRead == {e \in EntriesAfter : e.chip = TheChip /\ same_si_punches(e.result, Incoming)}

\* C34: after a cardRead that a standard event has taken without raising, an
\* entry of the event with the card's chip stores the SI punches of the card
C34_NoReadLost == StandardCall => StoredRead # {}

\* the chip had an assigned entry with other punches and an unassigned entry
\* with yet other punches: the read is kept in a third entry
C34_Witness ==
  /\ StandardCall
  /\ \E a \in AssignedBefore : has_punches(a.result) /\ ~same_si_punches(a.result, Incoming)
  /\ \E u \in UnassignedBefore : ~same_si_punches(u.result, Incoming)
  /\ StoredRead = Added /\ Cardinality(Added) = 1

\* the read went into the runner's entry, computed against the course
C34_WitnessMerged ==
  /\ StandardCall /\ MergeCondition /\ Added = {}
  /\ \E e \in StoredRead : e.class_id # NoId /\ e.result # Incoming

\* the step processes once more the cardRead that was processed last
SameReadAgain ==
  /\ CardReadReturned
  /\ last'.op = "store_cardreader_result" /\ last'.raised = ""
  /\ last'.event_key = last.event_key /\ last'.item = last.item

\* C35: a cardRead that is processed a second time, right after it was
\* processed, inserts, updates and deletes nothing, in a standard and in a
\* light event
C35_ReadTwice == [][SameReadAgain => db' = db]_vars

\* a standard event: the card was merged into the runner's entry, and is
\* answered from that entry when it is read again
C35_Witness ==
  /\ StandardCall /\ db = last.pre
  /\ \E e \in DupBefore : e.result = ExpectedResult(e) /\ e.result # Incoming
  /\ last.res.error = NoneS

\* a light event: the card that registered the runner is a second reading
C35_WitnessLight ==
  /\ LightCall /\ db = last.pre
  /\ \E e \in ChipBefore : e.class_id # NoId /\ same_si_punches(e.result, Incoming)
  /\ last.res.light_status = "second_reading"

\* the card was stored unassigned and is read again
C35_WitnessUnassigned ==
  /\ StandardCall /\ db = last.pre
  /\ AssignedBefore = {} /\ ReadOutBefore # {}

\* C36: no two competitors have the same chip, unless they have none
C36_ChipOfOneCompetitor ==
  \A i, j \in 1..Len(db.competitors) :
     (i # j /\ db.competitors[i].chip # "") => db.competitors[i].chip # db.competitors[j].chip

\* the step is a call of assign_name_to_light_entry for a chip that no entry
\* of the event has
NameForNoEntry ==
  /\ last'.op = "assign_name_to_light_entry" /\ last'.event_key = EventKey
  /\ last'.raised \in {"", "IndexError"}
  /\ \A e \in Range(get_entries(db, 1)) : e.chip # last'.args.chip

\* C37: assign_name_to_light_entry for a chip that no entry of the event has
\* raises and leaves competitors, entries and the cache as they were
C37_NoEntryOfChip ==
  [][NameForNoEntry => (last'.raised # "" /\ db' = db /\ cache' = cache)]_vars

\* a new name was given to a chip without entry while the event has an entry
\* of another chip and a cached ranking
C37_Witness ==
  /\ last.op = "assign_name_to_light_entry" /\ last.raised = "IndexError"
  /\ last.args.first_name = "Ann" /\ last.args.chip = "c2"
  /\ get_entries(db, 1) # <<>> /\ cache[1] # NoCache
  /\ \A c \in Range(db.competitors) : c.first_name # "Ann"

\* C38: a call of add_or_update_entry that raises leaves the store and the
\* cache as they were before the call
C38_RaisedUndone ==
  [][(last'.op = "add_or_update_entry" /\ last'.raised # "") => (db' = db /\ cache' = cache)]_vars

\* a new entry was submitted with the result of an entry that is gone: the
\* call failed with "Result deleted" after the entry was added, and neither
\* the entry nor the new competitor is in the store; the ranking is cached
C38_Witness ==
  /\ CaughtCall /\ last.raised = "Result deleted"
  /\ last.args.id = NoId /\ last.args.competitor_id = NoId /\ last.args.first_name = "Ann"
  /\ db = last.pre /\ db.entries = <<>>
  /\ \A c \in Range(db.competitors) : c.first_name # "Ann"
  /\ cache[1] # NoCache

\* an entry with punches was edited with the result of an entry that is
\* gone: the old result was stored as unassigned entry before the call
\* failed, and is not in the store
C38_WitnessStored ==
  /\ CaughtCall /\ last.raised = "Result deleted"
  /\ last.args.id # NoId /\ has_entry(last.pre, last.args.id)
  /\ has_punches(get_entry(last.pre, last.args.id).result)
  /\ db = last.pre /\ Len(db.entries) = 1

\* a call of edit_entry_result has returned; the result of the entry before
\* and after it
EditReturned == last.op = "edit_entry_result" /\ last.raised = ""
ResultBefore == get_entry(last.pre, last.args.id).result
ResultAfter == get_entry(db, last.args.id).result

\* the rows of a result that the card gave: code and SI time, in their order
SiRows(r) ==
  [i \in 1..Len(SiPunches(r)) |-> <<SiPunches(r)[i].control_code, SiPunches(r)[i].si_punch_time>>]

\* C39: edit_entry_result leaves the SI start, the SI finish and the rows that
\* have an SI time, with their SI times, as they were; so every result that
\* came from the card has the card's SI punches still
C39_SiDataKept ==
  /\ EditReturned =>
       /\ ResultAfter.si_punched_start_time = ResultBefore.si_punched_start_time
       /\ ResultAfter.si_punched_finish_time = ResultBefore.si_punched_finish_time
       /\ SiRows(ResultAfter) = SiRows(ResultBefore)
       /\ same_si_punches(ResultAfter, ResultBefore)
  /\ \A e \in Range(db.entries) :
       e.result.si_punched_start_time # NoTime => same_si_punches(e.result, SiCard)

\* the row of a punch of the card was deleted: the row is there, without
\* punch time
C39_Witness ==
  /\ EditReturned
  /\ Len(ResultBefore.split_times) >= 1 /\ Len(ResultAfter.split_times) >= 1
  /\ ResultBefore.split_times[1].si_punch_time # NoTime
  /\ ResultBefore.split_times[1].punch_time # NoTime
  /\ ResultAfter.split_times[1].si_punch_time # NoTime
  /\ ResultAfter.split_times[1].punch_time = NoTime

\* a row that the card did not give was deleted
C39_WitnessPopped ==
  /\ EditReturned
  /\ Len(WorkingPunches(ResultAfter)) < Len(WorkingPunches(ResultBefore))
  /\ SiRows(ResultBefore) # <<>>

\* the start was edited: the punched start differs from the SI start
C39_WitnessStart ==
  /\ EditReturned
  /\ ResultAfter.punched_start_time \notin {NoTime, ResultAfter.si_punched_start_time}
  /\ ResultAfter.si_punched_start_time # NoTime

\* the scheduled starts a class gives: none, or a time before the finish
ScheduledStarts == {NoTime, S1}

\* the result computed from r for the course and the parameters of the last
\* computation and the scheduled start s
Once(r, s) == compute_result(r, last.controls, last.params, s)

\* the rows of r with the given label
Labelled(r, status) == SelectSeq(r.split_times, LAMBDA sp : sp.status = status)

\* C40: recomputing is idempotent: compute_result applied, with the same
\* controls, class parameters and scheduled start, to a result that
\* compute_result produced yields that result again; the MISSING rows do not
\* accumulate (at most one per control) and the OK and ADDITIONAL rows are
\* the same
C40_RecomputeIdempotent ==
  Computed =>
    /\ \A s \in ScheduledStarts :
         /\ Once(Once(last.r, s), s) = Once(last.r, s)
         /\ Once(Once(last.out, s), s) = Once(last.out, s)
         /\ Len(Labelled(Once(Once(last.r, s), s), "MISSING")) <= Len(last.controls)
    /\ Once(last.out, NoTime) = last.out
    /\ Len(Labelled(last.out, "MISSING")) <= Len(last.controls)

\* a computed result with an OK, an ADDITIONAL and a MISSING row was computed
\* again
C40_Witness ==
  /\ Computed
  /\ last.r = last.out
  /\ Len(Labelled(last.out, "OK")) > 0
  /\ Len(Labelled(last.out, "ADDITIONAL")) > 0
  /\ Len(Labelled(last.out, "MISSING")) > 0

\* a result computed with a scheduled start differs from the one computed
\* without, and is its own recomputation
C40_WitnessScheduled ==
  /\ Computed
  /\ Once(last.out, S1) # last.out
  /\ Once(Once(last.out, S1), S1) = Once(last.out, S1)
  /\ Len(Labelled(last.out, "MISSING")) > 0

====
